---- MODULE Spec2Model ----
(***************************************************************************)
(* Scale set (VMSS) reconciler of cluster-api-provider-azure:              *)
(* scalesets.Service.Reconcile / Delete driving long running Azure         *)
(* operations through futures stored on the AzureMachinePool, one pass at  *)
(* a time.  A pass is one action; the Azure side is a small state machine  *)
(* that accepts, runs and completes operations between passes.             *)
(***************************************************************************)
EXTENDS Integers, Sequences, FiniteSets, TLC

\* ------------------------------------------------------------------ bounds
MaxCapacity == 1
MaxSurgeCount == 2

\* ------------------------------------------------------- program constants
MinimumVCPUS == 2
MinimumMemory == 2
ConflictRetryDelay == 30

\* seconds after which a pass that found its operation not done is repeated
OperationNotDoneDelay == 15

serviceName == "scalesets"

\* abstract values of every field of the compiled scale set other than the
\* instance count (image, sku name, identity, zones, tags)
Models == {"m1", "m2"}
Zones == {"1", "2"}
InstanceIDs == 1..(MaxCapacity + MaxSurgeCount)

NoFuture == [Type |-> "none"]
NoVMSS == [exists |-> FALSE]
NoOp == [Type |-> "none", status |-> "none"]
\* nil *azure.VMSS
Nil == [ID |-> "nil"]
\* converters.SDKToVMSS of the zero compute.VirtualMachineScaleSet
EmptyVMSS == [ID |-> "", Capacity |-> 0, Model |-> "none", State |-> "", Instances |-> {}]
NoError == [err |-> "nil", at |-> ""]

\* the AzureManagedMachinePool and the AzureManagedControlPlane as first
\* persisted, no scope on them, no pass made
NoManaged ==
    [pool |-> [ProviderIDList |-> <<>>, Replicas |-> 0, Ready |-> FALSE],
     controlPlane |-> [futures |-> {}],
     scope |-> [open |-> FALSE],
     last |-> [kind |-> "none", ret |-> [err |-> <<>>, RequeueAfter |-> 0], at |-> "",
               stored |-> {}, vmss |-> <<>>, listed |-> "", instances |-> <<>>]]

VARIABLES
    spec,          \* azure.ScaleSetSpec returned by Scope.ScaleSetSpec()
    maxSurge,      \* what Scope.MaxSurge() returns when it does not fail
    sku,           \* what resourceSKUCache knows about spec.Size and the location
    future,        \* infrav1.Future stored for (spec.Name, serviceName)
    vmss,          \* the scale set as Azure holds it
    op,            \* the last long running operation Azure accepted
    vmssState,     \* MachinePoolScope.vmssState published by the last pass
    providerID,    \* AzureMachinePool.Spec.ProviderID
    bootstrap,     \* BootstrapSucceededCondition of the AzureMachinePool
    pass,          \* the last pass: kind, returned error, client/scope calls in order
    machines,      \* the AzureMachinePoolMachines of the pool, as the API server holds them
    status,        \* AzureMachinePool.Status and Spec.ProviderIDList, as persisted
    closed,        \* the last Close: returned error, store calls in order, what it ran on
    requeue,       \* what the last NeedsRequeue returned
    peer,          \* another AzureMachinePool of the namespace: its machines, its future
    managed        \* an AzureManagedMachinePool: what is persisted, the scope, the last pass

syncVars == <<machines, status, closed, requeue, peer, managed>>

vars == <<spec, maxSurge, sku, future, vmss, op, vmssState, providerID, bootstrap, pass,
          machines, status, closed, requeue, peer, managed>>

\* ------------------------------------------------------------ validateSpec
\* An error is the chain of its layers, outermost first: the messages it was
\* wrapped with, and "terminal" where azure.WithTerminalError wrapped it.
NilError == <<>>

New(msg) == <<msg>>

Wrap(err, msg) == <<msg>> \o err

WithTerminalError(err) == <<"terminal">> \o err

\* azure.IsTerminalError: errors.As finds a terminal ReconcileError in the chain
IsTerminalError(err) == \E i \in 1..Len(err) : err[i] = "terminal"

\* error.Error(): the layers joined
RECURSIVE Error(_)
Error(err) ==
    IF err = NilError THEN "nil"
    ELSE IF Len(err) = 1 THEN err[1]
    ELSE err[1] \o ": " \o Error(Tail(err))

\* resourceSKUCache.Get: a size the cache does not hold is a terminal error
CacheGet(sk) ==
    IF sk.found THEN NilError ELSE WithTerminalError(New("sku not found"))

\* sku.vCPUs / sku.MemoryGB: -1 stands for a capability that does not parse
hasCapabilityErr(v) == v < 0

\* the loop of validateSpec that looks at the failure domains of the spec
\* instead of the zones of the location
ultraDisksUnsupported_FailureDomains(sp, sk) ==
    \E zone \in sp.FailureDomains :
        /\ zone \notin sk.UltraSSDAvailable
        /\ (sp.UltraDataDisk \/ sp.UltraSSDEnabled = "true")

\* the loop of validateSpec over the zones GetZones answers for the location:
\* an ultra data disk, or UltraSSDEnabled set and true, in a zone without
\* the UltraSSDAvailable capability
ultraDisksUnsupported(sp, sk) ==
    \E zone \in sk.locationZones :
        /\ zone \notin sk.UltraSSDAvailable
        /\ (sp.UltraDataDisk \/ sp.UltraSSDEnabled = "true")

\* validateSpec that checks the memory before the vCPUs
validateSpec_MemoryFirst(sp, sk) ==
    IF CacheGet(sk) # NilError THEN Wrap(CacheGet(sk), "failed to get SKU")
    ELSE IF hasCapabilityErr(sk.MemoryGB)
         THEN WithTerminalError(New("failed to validate the memory capability"))
    ELSE IF sk.MemoryGB < MinimumMemory THEN WithTerminalError(New("memory"))
    ELSE IF hasCapabilityErr(sk.vCPUs)
         THEN WithTerminalError(New("failed to validate the vCPU capability"))
    ELSE IF sk.vCPUs < MinimumVCPUS THEN WithTerminalError(New("vCPUs"))
    ELSE IF sp.DiffDiskSettings /\ ~sk.EphemeralOSDisk
         THEN WithTerminalError(New("ephemeral os"))
    ELSE IF sp.SecurityProfile /\ ~sk.EncryptionAtHost
         THEN WithTerminalError(New("encryption at host"))
    ELSE IF sk.zonesErr THEN WithTerminalError(New("failed to get the zones"))
    ELSE IF ultraDisksUnsupported(sp, sk) THEN WithTerminalError(New("ultra disks"))
    ELSE IF sk.azErr THEN New("failed to get zones for VM type")
    ELSE IF \E az \in sp.FailureDomains : az \notin sk.zonesWithVMSize
         THEN WithTerminalError(New("availability zone"))
    ELSE NilError

validateSpec(sp, sk) ==
    IF CacheGet(sk) # NilError THEN Wrap(CacheGet(sk), "failed to get SKU")
    ELSE IF hasCapabilityErr(sk.vCPUs)
         THEN WithTerminalError(New("failed to validate the vCPU capability"))
    ELSE IF sk.vCPUs < MinimumVCPUS THEN WithTerminalError(New("vCPUs"))
    ELSE IF hasCapabilityErr(sk.MemoryGB)
         THEN WithTerminalError(New("failed to validate the memory capability"))
    ELSE IF sk.MemoryGB < MinimumMemory THEN WithTerminalError(New("memory"))
    ELSE IF sp.DiffDiskSettings /\ ~sk.EphemeralOSDisk
         THEN WithTerminalError(New("ephemeral os"))
    ELSE IF sp.SecurityProfile /\ ~sk.EncryptionAtHost
         THEN WithTerminalError(New("encryption at host"))
    ELSE IF sk.zonesErr THEN WithTerminalError(New("failed to get the zones"))
    ELSE IF ultraDisksUnsupported(sp, sk) THEN WithTerminalError(New("ultra disks"))
    ELSE IF sk.azErr THEN New("failed to get zones for VM type")
    ELSE IF \E az \in sp.FailureDomains : az \notin sk.zonesWithVMSize
         THEN WithTerminalError(New("availability zone"))
    ELSE NilError

\* ------------------------------------------------------------ Azure side
\* instances are (id, model) pairs; new ones take the smallest free id
InstanceIDsOf(insts) == {i.id : i \in insts}

RECURSIVE SettleInstances(_, _, _)
SettleInstances(insts, capacity, model) ==
    IF Cardinality(insts) = capacity THEN insts
    ELSE IF Cardinality(insts) < capacity
         THEN IF InstanceIDs \subseteq InstanceIDsOf(insts) THEN insts
              ELSE LET free == CHOOSE i \in InstanceIDs \ InstanceIDsOf(insts) :
                                 \A j \in InstanceIDs \ InstanceIDsOf(insts) : i <= j
                   IN SettleInstances(insts \cup {[id |-> free, model |-> model]}, capacity, model)
         ELSE LET last == CHOOSE i \in insts : \A j \in insts : j.id <= i.id
              IN SettleInstances(insts \ {last}, capacity, model)

\* Azure finishes the operation it accepted
CompleteOperation(v, o) ==
    IF o.Type = "DELETE" THEN NoVMSS
    ELSE IF ~v.exists THEN v
    ELSE [v EXCEPT !.State = "Succeeded",
                   !.Instances = SettleInstances(v.Instances, v.Capacity, v.Model)]

\* Azure accepts a mutating call: the resource changes state at once, the
\* operation finishes at once (done) or later
AcceptOperation(v, type, capacity, model, done) ==
    LET started ==
            IF type = "PUT"
            THEN [exists |-> TRUE, Capacity |-> capacity, Model |-> model,
                  State |-> "Creating",
                  Instances |-> IF v.exists THEN v.Instances ELSE {}]
            ELSE IF type = "PATCH"
            THEN [v EXCEPT !.Capacity = capacity, !.Model = model, !.State = "Updating"]
            ELSE [v EXCEPT !.State = "Deleting"]
        o == [Type |-> type, status |-> IF done THEN "succeeded" ELSE "pending"]
    IN [vmss |-> IF done THEN CompleteOperation(started, o) ELSE started,
        op |-> o]

\* ------------------------------------------------- pass-local bookkeeping
\* st: future, vmss, op, bootstrap as the pass has changed them so far and
\* the client and scope calls made so far.  Every operator below that makes a
\* client call yields the SET of its possible outcomes: the answer Azure's
\* state determines, or a failure of the transport.
Log(st, api, res) ==
    [st EXCEPT !.calls = Append(@, [api |-> api, res |-> res])]

\* a call that carries a scale set: cap is its Sku.Capacity
LogCapacity(st, api, res, cap) ==
    [st EXCEPT !.calls = Append(@, [api |-> api, res |-> res, cap |-> cap])]

Observed(v) ==
    [ID |-> "vmss-id", Capacity |-> v.Capacity, Model |-> v.Model,
     State |-> v.State, Instances |-> v.Instances]

\* ------------------------------------------------------------ scope calls
SetLongRunningOperationState(st, f) ==
    Log([st EXCEPT !.future = f], "SetLongRunningOperationState", f.Type)

DeleteLongRunningOperationState(st) ==
    Log([st EXCEPT !.future = NoFuture], "DeleteLongRunningOperationState", "")

UpdatePutStatus(st) ==
    Log([st EXCEPT !.bootstrap = "True"], "UpdatePutStatus", "nil")

UpdateDeleteStatus(st) ==
    Log([st EXCEPT !.bootstrap = "Deleted"], "UpdateDeleteStatus", "nil")

\* ----------------------------------------------------------- client calls
ClientGet(st) ==
    { [st |-> Log(st, "Get", res), res |-> res] :
        res \in {"Error", IF st.vmss.exists THEN "OK" ELSE "NotFound"} }

ClientListInstances(st) ==
    { [st |-> Log(st, "ListInstances", res), res |-> res] :
        res \in {"Error", IF st.vmss.exists THEN "OK" ELSE "NotFound"} }

\* a DELETE future that is done has an empty result; a PUT or PATCH future
\* that is done reads the resource
GetResultIfDone(st, f) ==
    { [st |-> Log(st, "GetResultIfDone", res), res |-> res,
       vmss |-> IF res = "OK" /\ f.Type # "DELETE" THEN Observed(st.vmss) ELSE EmptyVMSS] :
        res \in {"Error",
                 IF st.op.status = "pending" THEN "NotDone"
                 ELSE IF st.op.status = "failed" THEN "Failed"
                 ELSE IF f.Type = "DELETE" THEN "OK"
                 ELSE IF st.vmss.exists THEN "OK" ELSE "NotFound"} }

\* CreateOrUpdateAsync, UpdateAsync, DeleteAsync: refused, or accepted with
\* the operation finishing at once or later.  Only patchVMSSIfNeeded tells a
\* conflict from the other refusals.
MutatingCall(st, api, type, capacity, model) ==
    { [st |-> LogCapacity(st, api, res, capacity), res |-> res, future |-> NoFuture] :
        res \in {"Error"}
                \cup (IF type = "PATCH" THEN {"Conflict"} ELSE {})
                \cup (IF type # "PUT" /\ ~st.vmss.exists THEN {"NotFound"} ELSE {}) }
    \cup
    { [st |-> [LogCapacity(st, api, "Accepted", capacity) EXCEPT !.vmss = acc.vmss, !.op = acc.op],
       res |-> "Accepted", future |-> [Type |-> type]] :
        acc \in IF type # "PUT" /\ ~st.vmss.exists THEN {}
                ELSE {AcceptOperation(st.vmss, type, capacity, model, done) : done \in BOOLEAN} }

\* -------------------------------------------------------- service helpers
getVirtualMachineScaleSet(st) ==
    UNION { IF g.res # "OK"
            THEN {[st |-> g.st, vmss |-> Nil, err |-> g.res]}
            ELSE { IF l.res # "OK"
                   THEN [st |-> l.st, vmss |-> Nil, err |-> l.res]
                   ELSE [st |-> l.st, vmss |-> Observed(st.vmss), err |-> "nil"] :
                     l \in ClientListInstances(g.st) } :
              g \in ClientGet(st) }

\* the poll repeated within the pass when the operation is not done
getVirtualMachineScaleSetIfDone_Waits(st, f) ==
    UNION { IF g.res = "NotDone"
            THEN { [st |-> h.st, vmss |-> Nil, err |-> h.res] : h \in GetResultIfDone(g.st, f) }
            ELSE IF g.res # "OK"
            THEN {[st |-> g.st, vmss |-> Nil, err |-> g.res]}
            ELSE { IF l.res # "OK"
                   THEN [st |-> l.st, vmss |-> Nil, err |-> l.res]
                   ELSE [st |-> l.st, vmss |-> [g.vmss EXCEPT !.Instances = st.vmss.Instances],
                         err |-> "nil"] :
                     l \in ClientListInstances(g.st) } :
              g \in GetResultIfDone(st, f) }

getVirtualMachineScaleSetIfDone(st, f) ==
    UNION { IF g.res # "OK"
            THEN {[st |-> g.st, vmss |-> Nil, err |-> g.res]}
            ELSE { IF l.res # "OK"
                   THEN [st |-> l.st, vmss |-> Nil, err |-> l.res]
                   ELSE [st |-> l.st, vmss |-> [g.vmss EXCEPT !.Instances = st.vmss.Instances],
                         err |-> "nil"] :
                     l \in ClientListInstances(g.st) } :
              g \in GetResultIfDone(st, f) }

\* vmss.AdditionalCapabilities as buildVMSSFromSpec leaves it: "nil" for no
\* block, else the value of UltraSSDEnabled. The block is allocated only for
\* an ultra data disk; the value set on the spec is then written through
\* vmss.AdditionalCapabilities, a nil pointer when no block was allocated.
additionalCapabilities(sp) ==
    LET detected == IF sp.UltraDataDisk THEN "true" ELSE "nil"
    IN IF sp.UltraSSDEnabled # "nil"
       THEN IF detected = "nil" THEN "panic" ELSE sp.UltraSSDEnabled
       ELSE detected

\* the compiled scale set with Sku.Capacity left at its zero value
buildVMSSFromSpec_NoCapacity(sp) ==
    [Capacity |-> 0, Model |-> sp.Model,
     AdditionalCapabilities |-> additionalCapabilities(sp)]

\* the compiled scale set: the spec's capacity and everything else
buildVMSSFromSpec(sp) ==
    [Capacity |-> sp.Capacity, Model |-> sp.Model,
     AdditionalCapabilities |-> additionalCapabilities(sp)]

\* buildVMSSFromSpec fails (image, bootstrap data, ...) before any call is made
BuildFails(st) == [st |-> st, future |-> NoFuture, err |-> "BuildError"]

\* buildVMSSFromSpec dereferences a nil pointer: the pass unwinds with the
\* panic, no call is made
BuildPanics(st) == [st |-> st, future |-> NoFuture, err |-> "panic"]

\* a conflict asking to come back as soon as an operation that is not done
RequeueAfter_Short(err) ==
    IF err \in {"Conflict", "NotDone"} THEN OperationNotDoneDelay ELSE 0

\* the delay the error of a pass carries: patchVMSSIfNeeded turns a conflict
\* into a transient error of 30 seconds, the poll of an operation that is
\* not done is a transient error with the short delay, other errors have none
RequeueAfter(err) ==
    CASE err = "Conflict" -> ConflictRetryDelay
      [] err = "NotDone" -> OperationNotDoneDelay
      [] OTHER -> 0

\* the future recorded whatever the call answered
Started_BeforeResult(c) ==
    [st |-> SetLongRunningOperationState(c.st, c.future), future |-> c.future,
     err |-> IF c.res = "Accepted" THEN "nil" ELSE c.res]

\* what createVMSS and patchVMSSIfNeeded do with the answer to their call
Started(c) ==
    IF c.res # "Accepted"
    THEN [st |-> c.st, future |-> NoFuture, err |-> c.res]
    ELSE [st |-> SetLongRunningOperationState(c.st, c.future), future |-> c.future, err |-> "nil"]

\* createVMSS sending the PUT a second time when the first is refused
createVMSS_Retry(st, sp) ==
    {BuildFails(st)}
    \cup UNION { IF c.res = "Accepted" THEN {Started(c)}
                 ELSE { Started(d) :
                          d \in MutatingCall(c.st, "CreateOrUpdateAsync", "PUT",
                                             sp.Capacity, sp.Model) } :
                   c \in MutatingCall(st, "CreateOrUpdateAsync", "PUT", sp.Capacity, sp.Model) }

createVMSS(st, sp) ==
    LET desired == buildVMSSFromSpec(sp)
    IN {BuildFails(st)}
       \cup IF desired.AdditionalCapabilities = "panic"
            THEN {BuildPanics(st)}
            ELSE { Started(c) :
                     c \in MutatingCall(st, "CreateOrUpdateAsync", "PUT",
                                        desired.Capacity, desired.Model) }

hasModelModifyingDifferences(infraVMSS, desired) == infraVMSS.Model # desired.Model

HasLatestModelAppliedToAll(infraVMSS) ==
    \A i \in infraVMSS.Instances : i.model = infraVMSS.Model

HasEnoughLatestModelOrNotMixedModel(infraVMSS) == HasLatestModelAppliedToAll(infraVMSS)

\* the surge applied whenever there is one, whatever the state of the model
patchCapacity_AlwaysSurge(infraVMSS, sp, surge) ==
    IF surge > 0 THEN sp.Capacity + surge ELSE sp.Capacity

\* patch.Sku.Capacity: the spec's capacity, surged while the model rolls
patchCapacity(infraVMSS, sp, surge) ==
    IF surge > 0 /\ (hasModelModifyingDifferences(infraVMSS, buildVMSSFromSpec(sp))
                     \/ ~HasEnoughLatestModelOrNotMixedModel(infraVMSS))
    THEN sp.Capacity + surge
    ELSE sp.Capacity

\* the no-op test with < for <=
nothingToUpdate_Strict(capacity, infraVMSS, hasModelChanges) ==
    capacity < infraVMSS.Capacity /\ ~hasModelChanges

\* the no-op test asking for equal capacities
nothingToUpdate_OnlyEqual(capacity, infraVMSS, hasModelChanges) ==
    capacity = infraVMSS.Capacity /\ ~hasModelChanges

\* "If there are no model changes and no increase in the replica count, do
\* not update the VMSS"
nothingToUpdate(capacity, infraVMSS, hasModelChanges) ==
    capacity <= infraVMSS.Capacity /\ ~hasModelChanges

patchVMSSIfNeeded(st, infraVMSS, sp, surge) ==
    LET desired == buildVMSSFromSpec(sp)
        hasModelChanges == hasModelModifyingDifferences(infraVMSS, desired)
        capacity == patchCapacity(infraVMSS, sp, surge)
    IN {BuildFails(st), [st |-> st, future |-> NoFuture, err |-> "MaxSurgeError"]}
       \cup IF desired.AdditionalCapabilities = "panic"
            THEN {BuildPanics(st)}
            ELSE IF nothingToUpdate(capacity, infraVMSS, hasModelChanges)
            THEN {[st |-> st, future |-> NoFuture, err |-> "nil"]}
            ELSE { Started(c) :
                     c \in MutatingCall(st, "UpdateAsync", "PATCH", capacity, desired.Model) }

\* ------------------------------------------------------- Service.Reconcile
Err(e, where) == [err |-> e, at |-> where]

\* the end of Reconcile without UpdatePutStatus
ReconcileDone_NoStatus(st, fetched, infra) ==
    [st |-> DeleteLongRunningOperationState(st),
     fetchedVMSS |-> fetched, infra |-> infra, ret |-> NoError]

\* the end of Reconcile without DeleteLongRunningOperationState
ReconcileDone_KeepFuture(st, fetched, infra) ==
    [st |-> UpdatePutStatus(st), fetchedVMSS |-> fetched, infra |-> infra, ret |-> NoError]

\* "If we get to here, we have completed any long running VMSS operations"
ReconcileDone(st, fetched, infra) ==
    [st |-> UpdatePutStatus(DeleteLongRunningOperationState(st)),
     fetchedVMSS |-> fetched, infra |-> infra, ret |-> NoError]

\* the switch on the fetch result and the poll of the future it started
ReconcileAct(f, sp, surge) ==
    UNION { IF m.err # "nil"
            THEN {[st |-> m.st, fetchedVMSS |-> f.vmss, infra |-> f.vmss,
                   ret |-> Err(m.err, IF f.err = "NotFound" THEN "create" ELSE "patch")]}
            ELSE IF m.future = NoFuture
            THEN {ReconcileDone(m.st, f.vmss, f.vmss)}
            ELSE { IF p.err # "nil"
                   THEN [st |-> p.st, fetchedVMSS |-> p.vmss, infra |-> f.vmss,
                         ret |-> Err(p.err, "after")]
                   ELSE ReconcileDone(p.st, p.vmss, f.vmss) :
                     p \in getVirtualMachineScaleSetIfDone(m.st, m.future) } :
              m \in IF f.err = "NotFound"
                    THEN createVMSS(f.st, sp)
                    ELSE patchVMSSIfNeeded(f.st, f.vmss, sp, surge) }

\* Reconcile taking "operation not done" for "not found"
ReconcileMain_NotDoneAsNotFound(st, sp, surge) ==
    UNION { IF f.err \notin {"nil", "NotFound", "NotDone"}
            THEN {[st |-> f.st, fetchedVMSS |-> f.vmss, infra |-> Nil, ret |-> Err(f.err, "get")]}
            ELSE IF f.err = "NotDone"
            THEN ReconcileAct([f EXCEPT !.err = "NotFound"], sp, surge)
            ELSE ReconcileAct(f, sp, surge) :
              f \in IF st.future = NoFuture
                    THEN getVirtualMachineScaleSet(st)
                    ELSE getVirtualMachineScaleSetIfDone(st, st.future) }

\* the body of Reconcile after validateSpec, up to its return
ReconcileMain(st, sp, surge) ==
    UNION { IF f.err # "nil" /\ f.err # "NotFound"
            THEN {[st |-> f.st, fetchedVMSS |-> f.vmss, infra |-> Nil, ret |-> Err(f.err, "get")]}
            ELSE ReconcileAct(f, sp, surge) :
              f \in IF st.future = NoFuture
                    THEN getVirtualMachineScaleSet(st)
                    ELSE getVirtualMachineScaleSetIfDone(st, st.future) }

\* the deferred function of Reconcile: refresh when nothing was fetched,
\* publish what there is
Publish(g, withProviderID) ==
    [st |-> IF g.vmss = Nil THEN g.st
            ELSE IF withProviderID
            THEN Log(Log(g.st, "SetProviderID", g.vmss.ID), "SetVMSSState", "")
            ELSE Log(g.st, "SetVMSSState", ""),
     published |-> g.vmss]

\* the deferred function of Reconcile without its refresh
ReconcileDeferred_NoRefresh(r) ==
    { Publish([st |-> r.st, vmss |-> r.fetchedVMSS, err |-> "nil"], TRUE) }

ReconcileDeferred(r) ==
    { Publish(g, TRUE) :
        g \in IF r.fetchedVMSS = Nil
              THEN getVirtualMachineScaleSet(r.st)
              ELSE {[st |-> r.st, vmss |-> r.fetchedVMSS, err |-> "nil"]} }

\* no pass has just run
IdlePass == [kind |-> "none", ret |-> NoError, calls |-> <<>>, before |-> NoFuture, infra |-> Nil]

\* between passes the scope of the last pass is gone
BetweenPasses == pass' = IdlePass /\ vmssState' = Nil

StartOfPass == [future |-> future, vmss |-> vmss, op |-> op, bootstrap |-> bootstrap,
                calls |-> <<>>]

\* Reconcile with the deferred function registered before validateSpec
ReconcilePass_DeferFirst(st, sp, sk, surge) ==
    IF validateSpec(sp, sk) # NilError
    THEN { [ret |-> Err(Error(validateSpec(sp, sk)), "validateSpec"), infra |-> Nil,
            st |-> d.st, published |-> d.published] :
             d \in ReconcileDeferred([st |-> st, fetchedVMSS |-> Nil]) }
    ELSE UNION { { [ret |-> r.ret, infra |-> r.infra, st |-> d.st, published |-> d.published] :
                     d \in ReconcileDeferred(r) } :
                   r \in ReconcileMain(st, sp, surge) }

\* Service.Reconcile: validateSpec first, then the body and the deferred
\* function.  ret: the error returned; infra: the scale set the diff ran on;
\* st: what the pass leaves; published: what it handed to SetVMSSState
ReconcilePass(st, sp, sk, surge) ==
    IF validateSpec(sp, sk) # NilError
    THEN { [ret |-> Err(Error(validateSpec(sp, sk)), "validateSpec"), infra |-> Nil,
            st |-> st, published |-> Nil] }
    ELSE UNION { { [ret |-> r.ret, infra |-> r.infra, st |-> d.st, published |-> d.published] :
                     d \in ReconcileDeferred(r) } :
                   r \in ReconcileMain(st, sp, surge) }

Reconcile ==
    \E o \in ReconcilePass(StartOfPass, spec, sku, maxSurge) :
        /\ pass' = [kind |-> "Reconcile", ret |-> o.ret, calls |-> o.st.calls,
                    before |-> future, infra |-> o.infra]
        /\ future' = o.st.future
        /\ vmss' = o.st.vmss
        /\ op' = o.st.op
        /\ bootstrap' = o.st.bootstrap
        /\ vmssState' = o.published
        /\ providerID' = IF o.published # Nil THEN o.published.ID ELSE providerID
        /\ UNCHANGED <<spec, maxSurge, sku>>
        /\ UNCHANGED syncVars

\* ---------------------------------------------------------- Service.Delete
\* "ScaleSet has been deleted"
DeleteDone(st) ==
    [st |-> UpdateDeleteStatus(DeleteLongRunningOperationState(st)), ret |-> NoError]

\* Delete taking a not-found answer to DeleteAsync for a failure
DeleteMain_NotFoundIsError(st) ==
    IF st.future # NoFuture
    THEN { IF p.res # "OK" THEN [st |-> p.st, ret |-> Err(p.res, "future")] ELSE DeleteDone(p.st) :
             p \in GetResultIfDone(st, st.future) }
    ELSE UNION { IF c.res # "Accepted" THEN {[st |-> c.st, ret |-> Err(c.res, "delete")]}
                 ELSE { IF q.res # "OK" THEN [st |-> q.st, ret |-> Err(q.res, "after")]
                        ELSE DeleteDone(q.st) :
                          q \in GetResultIfDone(SetLongRunningOperationState(c.st, c.future),
                                                c.future) } :
                   c \in MutatingCall(st, "DeleteAsync", "DELETE", 0, "none") }

\* Delete polling the future of the accepted DELETE without storing it
DeleteMain_ForgetsFuture(st) ==
    IF st.future # NoFuture
    THEN { IF p.res # "OK" THEN [st |-> p.st, ret |-> Err(p.res, "future")] ELSE DeleteDone(p.st) :
             p \in GetResultIfDone(st, st.future) }
    ELSE UNION { IF c.res = "NotFound" THEN {[st |-> c.st, ret |-> NoError]}
                 ELSE IF c.res # "Accepted" THEN {[st |-> c.st, ret |-> Err(c.res, "delete")]}
                 ELSE { IF q.res # "OK" THEN [st |-> q.st, ret |-> Err(q.res, "after")]
                        ELSE DeleteDone(q.st) :
                          q \in GetResultIfDone(c.st, c.future) } :
                   c \in MutatingCall(st, "DeleteAsync", "DELETE", 0, "none") }

\* Delete sending the DELETE without looking at the stored future
DeleteMain_IgnoreFuture(st) ==
    UNION { IF c.res = "NotFound" THEN {[st |-> c.st, ret |-> NoError]}
            ELSE IF c.res # "Accepted" THEN {[st |-> c.st, ret |-> Err(c.res, "delete")]}
            ELSE { IF q.res # "OK" THEN [st |-> q.st, ret |-> Err(q.res, "after")]
                   ELSE DeleteDone(q.st) :
                     q \in GetResultIfDone(SetLongRunningOperationState(c.st, c.future),
                                           c.future) } :
              c \in MutatingCall(st, "DeleteAsync", "DELETE", 0, "none") }

DeleteMain(st) ==
    IF st.future # NoFuture
    THEN { IF p.res # "OK" THEN [st |-> p.st, ret |-> Err(p.res, "future")] ELSE DeleteDone(p.st) :
             p \in GetResultIfDone(st, st.future) }
    ELSE UNION { IF c.res = "NotFound" THEN {[st |-> c.st, ret |-> NoError]}
                 ELSE IF c.res # "Accepted" THEN {[st |-> c.st, ret |-> Err(c.res, "delete")]}
                 ELSE { IF q.res # "OK" THEN [st |-> q.st, ret |-> Err(q.res, "after")]
                        ELSE DeleteDone(q.st) :
                          q \in GetResultIfDone(SetLongRunningOperationState(c.st, c.future),
                                                c.future) } :
                   c \in MutatingCall(st, "DeleteAsync", "DELETE", 0, "none") }

\* the deferred refresh of Delete run only when Delete returns nil
DeleteDeferred_OnlyOnSuccess(r) ==
    IF r.ret # NoError
    THEN {[st |-> r.st, published |-> Nil]}
    ELSE { Publish(g, FALSE) : g \in getVirtualMachineScaleSet(r.st) }

DeleteDeferred(r) ==
    { Publish(g, FALSE) : g \in getVirtualMachineScaleSet(r.st) }

\* Delete behind validateSpec, as Reconcile is
DeletePass_Validated(st) ==
    IF validateSpec(spec, sku) # NilError
    THEN {[ret |-> Err(Error(validateSpec(spec, sku)), "validateSpec"), st |-> st, published |-> Nil]}
    ELSE UNION { { [ret |-> r.ret, st |-> d.st, published |-> d.published] :
                     d \in DeleteDeferred(r) } :
                   r \in DeleteMain(st) }

\* Service.Delete: the body and the deferred refresh
DeletePass(st) ==
    UNION { { [ret |-> r.ret, st |-> d.st, published |-> d.published] :
                d \in DeleteDeferred(r) } :
              r \in DeleteMain(st) }

Delete ==
    \E o \in DeletePass(StartOfPass) :
        /\ pass' = [kind |-> "Delete", ret |-> o.ret, calls |-> o.st.calls,
                    before |-> future, infra |-> Nil]
        /\ future' = o.st.future
        /\ vmss' = o.st.vmss
        /\ op' = o.st.op
        /\ bootstrap' = o.st.bootstrap
        /\ vmssState' = o.published
        /\ UNCHANGED <<spec, maxSurge, sku, providerID>>
        /\ UNCHANGED syncVars

\* ------------------------------------------------- AzureMachinePoolMachines
\* m.AzureMachinePool.Name
AzureMachinePoolName == "amp"

\* an instance Azure lists with an instanceId and without a name
NamelessID == -1

\* an instance Azure lists without instanceId and name has id 0
InstanceIDOf(vm) == IF vm.id = 0 THEN "" ELSE ToString(vm.id)

NameOf(vm) == IF vm.id \in {0, NamelessID} THEN "" ELSE ToString(vm.id)

\* azure.VMSSVM.ProviderID
ProviderIDOf(vm) == <<"azure://", vm.id>>

\* azure.VMSS.InstancesByProviderID
InstancesByProviderID(v) ==
    [p \in {ProviderIDOf(i) : i \in v.Instances} |->
        CHOOSE i \in v.Instances : ProviderIDOf(i) = p]

NoStatus ==
    [ProvisioningState |-> "nil", Replicas |-> 0, ProviderIDList |-> {}, Ready |-> FALSE,
     Future |-> NoFuture]

\* no other pool in the namespace
NoPeer == [machines |-> {}, future |-> NoFuture]

IdleClose ==
    [ret |-> "nil", calls |-> <<>>, before |-> {}, state |-> Nil, future |-> NoFuture,
     strategy |-> FALSE, desired |-> 0, patched |-> FALSE, conditions |-> {}]

\* sy: the machines in the store and the store calls made so far.  A call
\* to the store yields the SET of its possible outcomes: what the store's
\* state determines, or a failure of the API server.
StoreLog(sy, api, key, res) ==
    [sy EXCEPT !.calls = Append(@, [api |-> api, key |-> key, res |-> res])]

\* a call to the selector: what it was asked and what it answered
SelectLog(sy, res, s, desiredReplicas, existing) ==
    [sy EXCEPT !.calls = Append(@, [api |-> "SelectMachinesToDelete", key |-> "",
                                    res |-> res,
                                    toDelete |-> {m.ProviderID : m \in s.toDelete},
                                    desired |-> desiredReplicas,
                                    from |-> {m.ProviderID : m \in existing}])]

\* a selection that matches every machine of the namespace
MatchingLabels_None(m) == TRUE

\* the labels the scope lists with: cluster name and pool name
MatchingLabels(m) == m.MachinePoolNameLabel = AzureMachinePoolName

\* client.List in the namespace with the labels of the pool
ClientList(sy) ==
    { [sy |-> StoreLog(sy, "List", "", "OK"),
       items |-> { m \in sy.machines : MatchingLabels(m) },
       err |-> "nil"],
      [sy |-> StoreLog(sy, "List", "", "Error"), items |-> {}, err |-> "Error"] }

\* client.Create
ClientCreate(sy, obj) ==
    IF \E m \in sy.machines : m.Name = obj.Name
    THEN { [sy |-> StoreLog(sy, "Create", obj.ProviderID, "AlreadyExists"),
            err |-> "AlreadyExists"] }
    ELSE { [sy |-> StoreLog([sy EXCEPT !.machines = @ \cup {obj}],
                            "Create", obj.ProviderID, "OK"),
            err |-> "nil"],
           [sy |-> StoreLog(sy, "Create", obj.ProviderID, "Error"), err |-> "Error"] }

\* client.Delete
ClientDelete(sy, obj) ==
    IF obj \notin sy.machines
    THEN { [sy |-> StoreLog(sy, "Delete", obj.ProviderID, "NotFound"), err |-> "NotFound"] }
    ELSE { [sy |-> StoreLog([sy EXCEPT !.machines = @ \ {obj}],
                            "Delete", obj.ProviderID, "OK"),
            err |-> "nil"],
           [sy |-> StoreLog(sy, "Delete", obj.ProviderID, "Error"), err |-> "Error"] }

\* createMachine that takes the provider id of the pool's first instance
\* instead of the machine's
createMachine_SharedProviderID(sy, machine) ==
    IF InstanceIDOf(machine) = ""
    THEN { [sy |-> sy, err |-> "machine.InstanceID must not be empty"] }
    ELSE IF NameOf(machine) = ""
    THEN { [sy |-> sy, err |-> "machine.Name must not be empty"] }
    ELSE ClientCreate(sy, [Name |-> <<AzureMachinePoolName, InstanceIDOf(machine)>>,
                           MachinePoolNameLabel |-> AzureMachinePoolName,
                           ProviderID |-> <<"azure://", 1>>,
                           InstanceID |-> InstanceIDOf(machine),
                           VMRunning |-> "Creating",
                           Ready |-> FALSE])

\* MachinePoolScope.createMachine
createMachine(sy, machine) ==
    IF InstanceIDOf(machine) = ""
    THEN { [sy |-> sy, err |-> "machine.InstanceID must not be empty"] }
    ELSE IF NameOf(machine) = ""
    THEN { [sy |-> sy, err |-> "machine.Name must not be empty"] }
    ELSE ClientCreate(sy, [Name |-> <<AzureMachinePoolName, InstanceIDOf(machine)>>,
                           MachinePoolNameLabel |-> AzureMachinePoolName,
                           ProviderID |-> ProviderIDOf(machine),
                           InstanceID |-> InstanceIDOf(machine),
                           VMRunning |-> "Creating",
                           Ready |-> FALSE])

\* a first loop that goes on to the next key after a create failed
RECURSIVE CreateEach_SkipsFailures(_, _, _)
CreateEach_SkipsFailures(sy, azureMachines, toCreate) ==
    IF toCreate = {} THEN { [sy |-> sy, err |-> "nil"] }
    ELSE UNION { UNION { CreateEach_SkipsFailures(c.sy, azureMachines, toCreate \ {k}) :
                         c \in createMachine(sy, azureMachines[k]) } :
                 k \in toCreate }

\* the first loop of applyAzureMachinePoolMachines: the keys of the map come
\* in any order, the first failure ends the loop
RECURSIVE CreateEach(_, _, _)
CreateEach(sy, azureMachines, toCreate) ==
    IF toCreate = {} THEN { [sy |-> sy, err |-> "nil"] }
    ELSE UNION { UNION { IF c.err = "nil"
                         THEN CreateEach(c.sy, azureMachines, toCreate \ {k})
                         ELSE { c } :
                         c \in createMachine(sy, azureMachines[k]) } :
                 k \in toCreate }

\* a loop that deletes machines: any order, the first failure ends the pass
RECURSIVE DeleteEach(_, _)
DeleteEach(sy, toDelete) ==
    IF toDelete = {} THEN { [sy |-> sy, err |-> "nil"] }
    ELSE UNION { UNION { IF d.err = "nil"
                         THEN DeleteEach(d.sy, toDelete \ {m})
                         ELSE { d } :
                         d \in ClientDelete(sy, m) } :
                 m \in toDelete }

\* TypedDeleteSelector.SelectMachinesToDelete: machines out of the ones it
\* is handed that bring their number down to the desired one, or an error
SelectMachinesToDelete(desiredReplicas, machinesByProviderID) ==
    { [toDelete |-> t, err |-> "nil"] :
        t \in { u \in SUBSET machinesByProviderID :
                  \/ u = {}
                  \/ Cardinality(machinesByProviderID \ u) >= desiredReplicas } }
        \cup { [toDelete |-> {}, err |-> "Error"] }

\* existingMachinesByProviderID
ExistingIDs(items) == { m.ProviderID : m \in items }

\* "determine which machines need to be created to reflect the current
\* state in Azure"
ToCreate_All(azureMachines, existing) == DOMAIN azureMachines

ToCreate(azureMachines, existing) ==
    { key \in DOMAIN azureMachines : key \notin ExistingIDs(existing) }

\* "delete machines that no longer exist in Azure"
NoLongerInAzure(azureMachines, existing) ==
    { m \in existing : m.ProviderID \notin DOMAIN azureMachines }

\* the selection made among the machines the store holds by then, the ones
\* created in the pass included
selectAndDelete_FromStore(sy, existing, fut, strategy, desiredReplicas) ==
    IF fut # NoFuture THEN { [sy |-> sy, err |-> "nil"] }
    ELSE IF ~strategy THEN { [sy |-> sy, err |-> "nil"] }
    ELSE UNION {
           IF s.err # "nil"
           THEN { [sy |-> SelectLog(sy, "Error", s, desiredReplicas, sy.machines),
                   err |-> "Error"] }
           ELSE DeleteEach(SelectLog(sy, "OK", s, desiredReplicas, sy.machines),
                           s.toDelete) :
           s \in SelectMachinesToDelete(desiredReplicas, sy.machines) }

\* the end of applyAzureMachinePoolMachines: "select machines to delete to
\* lower the replica count", with the victims the selector is never asked for
selectAndDelete_IgnoreFuture(sy, existing, fut, strategy, desiredReplicas) ==
    IF ~strategy THEN { [sy |-> sy, err |-> "nil"] }
    ELSE UNION {
           IF s.err # "nil"
           THEN { [sy |-> SelectLog(sy, "Error", s, desiredReplicas, existing),
                   err |-> "Error"] }
           ELSE DeleteEach(SelectLog(sy, "OK", s, desiredReplicas, existing), s.toDelete) :
           s \in SelectMachinesToDelete(desiredReplicas, existing) }

selectAndDelete_Everything(sy, existing, fut, strategy, desiredReplicas) ==
    IF fut # NoFuture THEN { [sy |-> sy, err |-> "nil"] }
    ELSE UNION {
           IF s.err # "nil"
           THEN { [sy |-> SelectLog(sy, "Error", s, desiredReplicas, existing),
                   err |-> "Error"] }
           ELSE DeleteEach(SelectLog(sy, "OK", s, desiredReplicas, existing), existing) :
           s \in SelectMachinesToDelete(desiredReplicas, existing) }

selectAndDelete(sy, existing, fut, strategy, desiredReplicas) ==
    IF fut # NoFuture THEN { [sy |-> sy, err |-> "nil"] }
    ELSE IF ~strategy THEN { [sy |-> sy, err |-> "nil"] }
    ELSE UNION {
           IF s.err # "nil"
           THEN { [sy |-> SelectLog(sy, "Error", s, desiredReplicas, existing),
                   err |-> "Error"] }
           ELSE DeleteEach(SelectLog(sy, "OK", s, desiredReplicas, existing), s.toDelete) :
           s \in SelectMachinesToDelete(desiredReplicas, existing) }

\* applyAzureMachinePoolMachines that goes on to select after it deleted
applyListed_Greedy(sy, existing, state, fut, strategy, desiredReplicas) ==
    LET azureMachines == InstancesByProviderID(state)
        gone == NoLongerInAzure(azureMachines, existing)
    IN UNION {
         IF c.err # "nil" THEN { c }
         ELSE UNION {
           IF d.err # "nil" THEN { d }
           ELSE selectAndDelete(d.sy, existing \ gone, fut, strategy, desiredReplicas) :
           d \in DeleteEach(c.sy, gone) } :
         c \in CreateEach(sy, azureMachines, ToCreate(azureMachines, existing)) }

\* applyAzureMachinePoolMachines after the machines were listed
applyListed(sy, existing, state, fut, strategy, desiredReplicas) ==
    LET azureMachines == InstancesByProviderID(state)
        gone == NoLongerInAzure(azureMachines, existing)
    IN UNION {
         IF c.err # "nil" THEN { c }
         ELSE UNION {
           IF d.err # "nil" \/ gone # {} THEN { d }
           ELSE selectAndDelete(d.sy, existing \ gone, fut, strategy, desiredReplicas) :
           d \in DeleteEach(c.sy, gone) } :
         c \in CreateEach(sy, azureMachines, ToCreate(azureMachines, existing)) }

\* MachinePoolScope.applyAzureMachinePoolMachines
applyAzureMachinePoolMachines(sy, state, fut, strategy, desiredReplicas) ==
    IF state = Nil THEN { [sy |-> sy, err |-> "nil"] }
    ELSE UNION {
           IF l.err # "nil" THEN { [sy |-> l.sy, err |-> l.err] }
           ELSE applyListed(l.sy, l.items, state, fut, strategy, desiredReplicas) :
           l \in ClientList(sy) }

\* MachinePoolScope.setProvisioningStateAndConditions: the provisioning
\* state and Status.Ready it sets
setProvisioningStateAndConditions(stt, v, replicas) ==
    IF v = "Succeeded" /\ replicas = stt.Replicas
    THEN [stt EXCEPT !.ProvisioningState = v, !.Ready = TRUE]
    ELSE IF v = "Succeeded"
    THEN [stt EXCEPT !.ProvisioningState = "Updating", !.Ready = FALSE]
    ELSE [stt EXCEPT !.ProvisioningState = v, !.Ready = FALSE]

\* MachinePoolScope.setProvisioningStateAndConditions: the conditions it
\* marks
conditionsMarked(stt, v, replicas) ==
    IF v = "Succeeded" /\ replicas = stt.Replicas
    THEN { <<"ScaleSetRunning", "True">>, <<"ScaleSetModelUpdated", "True">>,
           <<"ScaleSetDesiredReplicas", "True">> }
    ELSE IF v = "Succeeded"
    THEN { <<"ScaleSetDesiredReplicas",
             IF replicas > stt.Replicas THEN "ScaleUp" ELSE "ScaleDown">> }
    ELSE IF v = "Updating"
    THEN { <<"ScaleSetModelUpdated", "ModelOutOfDate">> }
    ELSE { <<"ScaleSetRunning", v>> }

\* updateReplicasAndProviderIDs that counts every machine as a replica
updateReplicasAndProviderIDs_CountsAll(sy, stt) ==
    { IF l.err # "nil" THEN [sy |-> l.sy, status |-> stt, err |-> l.err]
      ELSE [sy |-> l.sy,
            status |-> [stt EXCEPT !.Replicas = Cardinality(l.items),
                                   !.ProviderIDList = ExistingIDs(l.items)],
            err |-> "nil"] :
      l \in ClientList(sy) }

\* MachinePoolScope.updateReplicasAndProviderIDs
updateReplicasAndProviderIDs(sy, stt) ==
    { IF l.err # "nil" THEN [sy |-> l.sy, status |-> stt, err |-> l.err]
      ELSE [sy |-> l.sy,
            status |-> [stt EXCEPT !.Replicas = Cardinality({m \in l.items : m.Ready}),
                                   !.ProviderIDList = ExistingIDs(l.items)],
            err |-> "nil"] :
      l \in ClientList(sy) }

\* MachinePoolScope.PatchObject: the AzureMachinePool is persisted with the
\* conditions marked on it, or not
PatchObject(sy, stt, marked) ==
    { [sy |-> StoreLog(sy, "Patch", "", "OK"), status |-> stt, err |-> "nil",
       patched |-> TRUE, conditions |-> marked],
      [sy |-> StoreLog(sy, "Patch", "", "Error"), status |-> stt, err |-> "Error",
       patched |-> FALSE, conditions |-> {}] }

\* a scale set observed without instances
EmptyFleet ==
    [ID |-> "vmss-id", Capacity |-> 0, Model |-> "m1", State |-> "Succeeded",
     Instances |-> {}]

\* a Close that takes a scale set that was not published for one without
\* instances
ClosePass_NilAsEmpty(sy, stt, state, fut, strategy, desiredReplicas) ==
    LET st == IF state = Nil THEN EmptyFleet ELSE state
    IN UNION {
           IF a.err # "nil"
           THEN { [sy |-> a.sy, status |-> stt, err |-> a.err, patched |-> FALSE,
                   conditions |-> {}] }
           ELSE UNION {
                  IF u.err # "nil"
                  THEN { [sy |-> u.sy, status |-> stt, err |-> u.err, patched |-> FALSE,
                          conditions |-> {}] }
                  ELSE PatchObject(u.sy, u.status,
                                   conditionsMarked(stt, st.State, desiredReplicas)) :
                  u \in updateReplicasAndProviderIDs(
                           a.sy, setProvisioningStateAndConditions(stt, st.State,
                                                                   desiredReplicas)) } :
           a \in applyAzureMachinePoolMachines(sy, st, fut, strategy, desiredReplicas) }

\* MachinePoolScope.Close
ClosePass(sy, stt, state, fut, strategy, desiredReplicas) ==
    IF state = Nil THEN PatchObject(sy, stt, {})
    ELSE UNION {
           IF a.err # "nil"
           THEN { [sy |-> a.sy, status |-> stt, err |-> a.err, patched |-> FALSE,
                   conditions |-> {}] }
           ELSE UNION {
                  IF u.err # "nil"
                  THEN { [sy |-> u.sy, status |-> stt, err |-> u.err, patched |-> FALSE,
                          conditions |-> {}] }
                  ELSE PatchObject(u.sy, u.status,
                                   conditionsMarked(stt, state.State, desiredReplicas)) :
                  u \in updateReplicasAndProviderIDs(
                           a.sy, setProvisioningStateAndConditions(stt, state.State,
                                                                   desiredReplicas)) } :
           a \in applyAzureMachinePoolMachines(sy, state, fut, strategy, desiredReplicas) }

\* the controller closes a scope once. What is persisted of the pass: the
\* machines as the store holds them, the status with the future the scope
\* holds and the conditions when the patch went through
Close ==
    /\ closed = IdleClose
    /\ \E strategy \in BOOLEAN :
        \E o \in ClosePass([machines |-> machines \cup peer.machines, calls |-> <<>>],
                           status, vmssState, future, strategy, spec.Capacity) :
          /\ machines' = { m \in o.sy.machines :
                             m.MachinePoolNameLabel = AzureMachinePoolName }
          /\ peer' = [peer EXCEPT !.machines =
                         { m \in o.sy.machines :
                             m.MachinePoolNameLabel # AzureMachinePoolName }]
          /\ status' = IF o.patched THEN [o.status EXCEPT !.Future = future] ELSE status
          /\ closed' = [ret |-> o.err, calls |-> o.sy.calls, before |-> machines,
                        state |-> vmssState, future |-> future, strategy |-> strategy,
                        desired |-> spec.Capacity, patched |-> o.patched,
                        conditions |-> o.conditions]
          /\ vmssState' = Nil
          /\ UNCHANGED <<spec, maxSurge, sku, future, vmss, op, providerID, bootstrap, pass,
                         requeue, managed>>

\* ------------------------------------------------------------ NeedsRequeue
\* infrav1.IsTerminalProvisioningState
IsTerminalProvisioningState(state) == state \in {"Succeeded", "Failed"}

\* MachinePoolScope.NeedsRequeue; state "nil" is a provisioning state not set
NeedsRequeue(state, fleet, desiredReplicas) ==
    IF fleet = Nil
    THEN state # "nil" /\ IsTerminalProvisioningState(state)
    ELSE IF ~HasLatestModelAppliedToAll(fleet)
    THEN TRUE
    ELSE ~(/\ state # "nil"
           /\ IsTerminalProvisioningState(state)
           /\ Cardinality(fleet.Instances) = desiredReplicas)

\* the controller asks the scope whether the pool is to be reconciled again
AskNeedsRequeue ==
    /\ requeue' = IF NeedsRequeue(status.ProvisioningState, vmssState, spec.Capacity)
                   THEN "true" ELSE "false"
    /\ UNCHANGED <<spec, maxSurge, sku, future, vmss, op, vmssState, providerID,
                   bootstrap, pass, machines, status, closed, peer, managed>>

\* ------------------------------------------------------------- environment
\* Azure finishes the pending operation
OperationCompletes ==
    /\ op.status = "pending"
    /\ op' = [op EXCEPT !.status = "succeeded"]
    /\ vmss' = CompleteOperation(vmss, op)
    /\ BetweenPasses
    /\ UNCHANGED <<spec, maxSurge, sku, future, providerID, bootstrap>>
    /\ UNCHANGED syncVars

\* Azure gives the pending operation up
OperationFails ==
    /\ op.status = "pending"
    /\ op' = [op EXCEPT !.status = "failed"]
    /\ vmss' = IF vmss.exists THEN [vmss EXCEPT !.State = "Failed"] ELSE vmss
    /\ BetweenPasses
    /\ UNCHANGED <<spec, maxSurge, sku, future, providerID, bootstrap>>
    /\ UNCHANGED syncVars

\* an instance is deleted out of the scale set, which lowers its capacity
InstanceDeleted ==
    /\ vmss.exists
    /\ op.status # "pending"
    /\ \E i \in vmss.Instances :
           vmss' = [vmss EXCEPT !.Instances = @ \ {i},
                                !.Capacity = IF @ > 0 THEN @ - 1 ELSE 0]
    /\ BetweenPasses
    /\ UNCHANGED <<spec, maxSurge, sku, future, op, providerID, bootstrap>>
    /\ UNCHANGED syncVars

\* the scale set is removed behind the controller's back
ScaleSetVanishes ==
    /\ vmss.exists
    /\ op.status # "pending"
    /\ vmss' = NoVMSS
    /\ BetweenPasses
    /\ UNCHANGED <<spec, maxSurge, sku, future, op, providerID, bootstrap>>
    /\ UNCHANGED syncVars

\* the user edits the MachinePool / AzureMachinePool between passes: the
\* replica count changes, the template moves on to the next model
EditSpec ==
    /\ \E c \in 0..MaxCapacity, m \in Models :
           /\ <<c, m>> # <<spec.Capacity, spec.Model>>
           /\ (m = spec.Model \/ spec.Model = "m1")
           /\ spec' = [spec EXCEPT !.Capacity = c, !.Model = m]
    /\ BetweenPasses
    /\ UNCHANGED <<maxSurge, sku, future, vmss, op, providerID, bootstrap>>
    /\ UNCHANGED syncVars

ValidSKU ==
    [found |-> TRUE, vCPUs |-> 2, MemoryGB |-> 2, EphemeralOSDisk |-> FALSE,
     EncryptionAtHost |-> FALSE, zonesErr |-> FALSE, locationZones |-> Zones,
     UltraSSDAvailable |-> {"1"}, azErr |-> FALSE, zonesWithVMSize |-> {"1"}]

PlainSpec ==
    [Capacity |-> 0, Model |-> "m1", DiffDiskSettings |-> FALSE, SecurityProfile |-> FALSE,
     UltraDataDisk |-> FALSE, UltraSSDEnabled |-> "nil", FailureDomains |-> {"1"}]

\* the spec/SKU pairs the passes run against: one that validates and one
\* failing each rule of validateSpec
ValidationCases ==
    { <<PlainSpec, ValidSKU>>,
      <<PlainSpec, [ValidSKU EXCEPT !.found = FALSE]>>,
      <<PlainSpec, [ValidSKU EXCEPT !.vCPUs = 1]>>,
      <<PlainSpec, [ValidSKU EXCEPT !.MemoryGB = 1]>>,
      <<[PlainSpec EXCEPT !.DiffDiskSettings = TRUE], ValidSKU>>,
      <<[PlainSpec EXCEPT !.SecurityProfile = TRUE], ValidSKU>>,
      <<[PlainSpec EXCEPT !.UltraDataDisk = TRUE], ValidSKU>>,
      <<[PlainSpec EXCEPT !.FailureDomains = {"1", "2"}], ValidSKU>> }

\* the user moves a template that validates to a VM size that does not
EditTemplate ==
    /\ validateSpec(spec, sku) = NilError
    /\ \E vc \in ValidationCases :
           /\ vc[2].vCPUs < MinimumVCPUS
           /\ spec' = [vc[1] EXCEPT !.Capacity = spec.Capacity, !.Model = spec.Model]
           /\ sku' = vc[2]
    /\ BetweenPasses
    /\ UNCHANGED <<maxSurge, future, vmss, op, providerID, bootstrap>>
    /\ UNCHANGED syncVars

Init ==
    /\ \E vc \in ValidationCases, c \in 0..MaxCapacity :
           /\ spec = [vc[1] EXCEPT !.Capacity = c]
           /\ sku = vc[2]
    /\ maxSurge \in 0..MaxSurgeCount
    /\ future = NoFuture
    /\ vmss = NoVMSS
    /\ op = NoOp
    /\ vmssState = Nil
    /\ providerID = ""
    /\ bootstrap = "Unknown"
    /\ pass = IdlePass
    /\ machines = {}
    /\ status = NoStatus
    /\ closed = IdleClose
    /\ requeue = "none"
    /\ peer = NoPeer
    /\ managed = NoManaged

Next ==
    \/ Reconcile
    \/ Delete
    \/ OperationCompletes
    \/ OperationFails
    \/ InstanceDeleted
    \/ ScaleSetVanishes
    \/ EditSpec
    \/ EditTemplate

Spec == Init /\ [][Next]_vars


\* ------------------------------------------------- passes that keep coming
\* a pass in which Azure answered every call and the scale set compiled
CleanPass(p) ==
    /\ \A i \in 1..Len(p.calls) : p.calls[i].res \notin {"Error", "Conflict"}
    /\ p.ret.err \notin {"BuildError", "MaxSurgeError"}

ReconcileClean == Reconcile /\ CleanPass(pass')

\* a spec that validates, edited now and then, reconciled over and over
\* while Azure completes what it accepted
LiveInit == Init /\ validateSpec(spec, sku) = NilError

LiveNext ==
    \/ Reconcile
    \/ OperationCompletes
    \/ EditSpec

\* the controller requeues the pool until Reconcile returns nil, Azure
\* answers in the end, and every operation it accepted completes
LiveSpec ==
    /\ LiveInit
    /\ [][LiveNext]_vars
    /\ WF_vars(ReconcileClean)
    /\ WF_vars(OperationCompletes)

\* ------------------------------------------- the pool seen from the store
\* instance ids a scale set is observed with; 0 is the instance without
\* instanceId and name, NamelessID the one without name
TrackedIDs == NamelessID..(MaxCapacity + 1)

ObservedFleets ==
    { [ID |-> "vmss-id", Capacity |-> Cardinality(ids), Model |-> "m1", State |-> s,
       Instances |-> {[id |-> i, model |-> "m1"] : i \in ids}] :
        ids \in SUBSET TrackedIDs, s \in {"Succeeded", "Updating"} }

\* NewMachinePoolScope, "meant to be called for each reconcile iteration":
\* the scope of the pass before is gone, the AzureMachinePool is the one
\* that was persisted
NewMachinePoolScope ==
    /\ closed # IdleClose
    /\ closed' = IdleClose
    /\ vmssState' = Nil
    /\ future' = status.Future
    /\ UNCHANGED <<spec, maxSurge, sku, vmss, op, providerID, bootstrap, pass,
                   machines, status, requeue, peer, managed>>

\* a pass of the scalesets service ends: its future is stored or gone,
\* its deferred function has published what it fetched, or nothing
ScaleSetsPass ==
    /\ closed = IdleClose
    /\ vmssState = Nil
    /\ \E v \in ObservedFleets \cup {Nil}, f \in {NoFuture, [Type |-> "PATCH"]} :
           /\ vmssState' = v
           /\ future' = f
    /\ UNCHANGED <<spec, maxSurge, sku, vmss, op, providerID, bootstrap, pass,
                   machines, status, closed, requeue, peer, managed>>

\* the controller of the AzureMachinePoolMachines finds a machine running
MachineBecomesReady ==
    /\ \E m \in machines :
           /\ ~m.Ready
           /\ machines' = (machines \ {m})
                              \cup {[m EXCEPT !.Ready = TRUE, !.VMRunning = "True"]}
    /\ closed = IdleClose
    /\ UNCHANGED <<spec, maxSurge, sku, future, vmss, op, vmssState, providerID,
                   bootstrap, pass, status, closed, requeue, peer, managed>>

SyncInit == LiveInit /\ maxSurge = 0

SyncNext ==
    \/ NewMachinePoolScope
    \/ ScaleSetsPass
    \/ Close
    \/ MachineBecomesReady

SyncSpec == SyncInit /\ [][SyncNext]_vars

\* ------------------------------------------------- the scope asked to requeue
ProvisioningStates == {"nil", "Creating", "Updating", "Deleting", "Succeeded", "Failed"}

\* scale sets as a pass publishes them: instances on the model of the scale
\* set or on the one before
PublishedFleets ==
    { [ID |-> "vmss-id", Capacity |-> Cardinality(insts), Model |-> "m2",
       State |-> "Succeeded", Instances |-> insts] :
        insts \in { f \in SUBSET ((1..(MaxCapacity + 1)) \X Models) :
                      \A a, b \in f : a[1] = b[1] => a = b } }

\* a pool after some passes: a provisioning state persisted or not yet, a
\* scale set published by the pass or none
RequeueInit ==
    /\ \E c \in 0..MaxCapacity : spec = [PlainSpec EXCEPT !.Capacity = c]
    /\ sku = ValidSKU
    /\ maxSurge = 0
    /\ future = NoFuture
    /\ vmss = NoVMSS
    /\ op = NoOp
    /\ \E f \in PublishedFleets :
           vmssState \in {Nil, [f EXCEPT !.Instances =
                                   {[id |-> i[1], model |-> i[2]] : i \in f.Instances}]}
    /\ providerID = ""
    /\ bootstrap = "Unknown"
    /\ pass = IdlePass
    /\ machines = {}
    /\ \E s \in ProvisioningStates : status = [NoStatus EXCEPT !.ProvisioningState = s]
    /\ closed = IdleClose
    /\ requeue = "none"
    /\ peer = NoPeer
    /\ managed = NoManaged

RequeueNext == AskNeedsRequeue

RequeueSpec == RequeueInit /\ [][RequeueNext]_vars

\* ------------------------------------------- two pools in one namespace
\* A second AzureMachinePool lives in the namespace of the first. Its passes
\* run the same code on its own scope; here they are the environment of the
\* first pool: they change its machines and its stored future.

PeerPoolName == "amp2"

PeerMachines ==
    { [Name |-> <<PeerPoolName, "1">>,
       MachinePoolNameLabel |-> PeerPoolName,
       ProviderID |-> <<"azure://amp2", 1>>,
       InstanceID |-> "1",
       VMRunning |-> "Creating",
       Ready |-> FALSE] }

PeerPass ==
    /\ \E ms \in SUBSET PeerMachines, f \in {NoFuture, [Type |-> "PATCH"]} :
           /\ peer' = [machines |-> ms, future |-> f]
           /\ peer' # peer
    /\ UNCHANGED <<spec, maxSurge, sku, future, vmss, op, vmssState, providerID,
                   bootstrap, pass, machines, status, closed, requeue, managed>>

PoolsInit == SyncInit

PoolsNext ==
    \/ NewMachinePoolScope
    \/ ScaleSetsPass
    \/ Close
    \/ PeerPass

PoolsSpec == PoolsInit /\ [][PoolsNext]_vars

\* ------------------------------------------------ validateSpec on its own
\* Reconcile on every combination of what validateSpec looks at: the options
\* of the spec and what the SKU cache answers for its size and location.

GateSpecs ==
    { [PlainSpec EXCEPT !.DiffDiskSettings = d[1], !.SecurityProfile = d[2],
                        !.UltraDataDisk = d[3], !.UltraSSDEnabled = u,
                        !.FailureDomains = fd] :
        d \in BOOLEAN \X BOOLEAN \X BOOLEAN,
        u \in {"nil", "true", "false"},
        fd \in {{"1"}, {"1", "2"}} }

GateSKUs ==
    { [ValidSKU EXCEPT !.found = b[1], !.EphemeralOSDisk = b[2],
                       !.EncryptionAtHost = b[3], !.zonesErr = b[4], !.azErr = b[5],
                       !.vCPUs = c[1], !.MemoryGB = c[2], !.UltraSSDAvailable = ultra,
                       !.locationZones = lz] :
        b \in BOOLEAN \X BOOLEAN \X BOOLEAN \X BOOLEAN \X BOOLEAN,
        c \in {-1, 1, 2} \X {-1, 1, 2},
        ultra \in {{"1"}, Zones},
        lz \in {{"1"}, Zones} }

GateInit ==
    /\ spec \in GateSpecs
    /\ sku \in GateSKUs
    /\ maxSurge = 0
    /\ future = NoFuture
    /\ vmss = NoVMSS
    /\ op = NoOp
    /\ vmssState = Nil
    /\ providerID = ""
    /\ bootstrap = "Unknown"
    /\ pass = IdlePass
    /\ machines = {}
    /\ status = NoStatus
    /\ closed = IdleClose
    /\ requeue = "none"
    /\ peer = NoPeer
    /\ managed = NoManaged

GateNext == Reconcile

GateSpec == GateInit /\ [][GateNext]_vars

\* ------------------------------------------------ the managed machine pool
\* what is left of the state when a managed machine pool is reconciled
unmanagedVars ==
    <<spec, maxSurge, sku, future, vmss, op, vmssState, providerID, bootstrap, pass,
      machines, status, closed, requeue, peer>>

\* AgentPoolSpec().Name
AgentPoolName == "pool1"

\* the service the agent pool keeps its futures under
AgentPoolsServiceName == "agentpools"

\* the retry delay of a scale set that is not found
AgentPoolVMSSNotFoundDelay == 20

\* futures.Set: the future takes the place of the one of its name and service
futures_Set(fs, f) ==
    { g \in fs : <<g.Name, g.ServiceName>> # <<f.Name, f.ServiceName>> } \cup {f}

\* futures.Get: the future of the name and service, or nil
futures_Get(fs, name, service) ==
    IF \E g \in fs : g.Name = name /\ g.ServiceName = service
    THEN CHOOSE g \in fs : g.Name = name /\ g.ServiceName = service
    ELSE NoFuture

\* futures.Delete
futures_Delete(fs, name, service) ==
    { g \in fs : <<g.Name, g.ServiceName>> # <<name, service>> }

\* NewManagedMachinePoolScope: the scope holds the objects it was given and
\* a patch helper for the InfraMachinePool
NewManagedMachinePoolScopeOf(infraMachinePool, controlPlane) ==
    [open |-> TRUE, InfraMachinePool |-> infraMachinePool, ControlPlane |-> controlPlane]

\* ManagedMachinePoolScope.SetLongRunningOperationState
ManagedSetLongRunningOperationState(sc, f) ==
    [sc EXCEPT !.ControlPlane.futures = futures_Set(@, f)]

\* ManagedMachinePoolScope.GetLongRunningOperationState
ManagedGetLongRunningOperationState(sc, name, service) ==
    futures_Get(sc.ControlPlane.futures, name, service)

\* ManagedMachinePoolScope.DeleteLongRunningOperationState
ManagedDeleteLongRunningOperationState(sc, name, service) ==
    [sc EXCEPT !.ControlPlane.futures = futures_Delete(@, name, service)]

\* ManagedMachinePoolScope.SetAgentPoolProviderIDList
SetAgentPoolProviderIDList(sc, providerIDs) ==
    [sc EXCEPT !.InfraMachinePool.ProviderIDList = providerIDs]

\* ManagedMachinePoolScope.SetAgentPoolReplicas
SetAgentPoolReplicas(sc, replicas) ==
    [sc EXCEPT !.InfraMachinePool.Replicas = replicas]

\* ManagedMachinePoolScope.SetAgentPoolReady
SetAgentPoolReady(sc, ready) ==
    [sc EXCEPT !.InfraMachinePool.Ready = ready]

\* ManagedMachinePoolScope.PatchObject: the patch helper of the scope patches
\* the InfraMachinePool, or fails
ManagedPatchObject(sc, persisted) ==
    { [pool |-> sc.InfraMachinePool, err |-> NilError],
      [pool |-> persisted, err |-> New("patch failed")] }

\* ManagedMachinePoolScope.Close
ManagedClosePass(sc, persisted) == ManagedPatchObject(sc, persisted)

\* an error and the delay it is to be retried after, 0 for none
Plain(err) == [err |-> err, RequeueAfter |-> 0]

\* azure.WithTransientError
WithTransientError(err, requeueAfter) ==
    [err |-> <<"transient">> \o err, RequeueAfter |-> requeueAfter]

\* the future the agentpools service stores for an operation of the pool
AgentPoolFuture(type) ==
    [Name |-> AgentPoolName, ServiceName |-> AgentPoolsServiceName, Type |-> type]

\* a future another service holds on the control plane
ClusterFuture == [Name |-> "cluster", ServiceName |-> "managedclusters", Type |-> "PUT"]

\* what a call of the agentpools service leaves: the operation is done and
\* its future gone, Azure has accepted it and its future is stored, or it
\* failed
AgentPoolsCall(sc, type) ==
    { [scope |-> ManagedDeleteLongRunningOperationState(sc, AgentPoolName,
                                                        AgentPoolsServiceName),
       ret |-> Plain(NilError), stored |-> {}],
      [scope |-> ManagedSetLongRunningOperationState(sc, AgentPoolFuture(type)),
       ret |-> WithTransientError(New("operation not done"), OperationNotDoneDelay),
       stored |-> {AgentPoolFuture(type)}],
      [scope |-> sc, ret |-> Plain(New("agent pool error")), stored |-> {}] }

\* the scale sets of the node resource group, by the tags that name a pool
ListedScaleSets ==
    { [Name |-> n, poolName |-> p, aksManagedPoolName |-> a] :
        n \in {"ss1", "ss2"}, p \in {"nil", AgentPoolName, "other"},
        a \in {"nil", AgentPoolName} }

MaxListed == 2

\* scalesets Client.List
ScaleSetListings ==
    { [err |-> New("list failed"), vmss |-> <<>>] }
        \cup { [err |-> NilError, vmss |-> l] :
                 l \in { m \in UNION { [1..n -> ListedScaleSets] : n \in 0..MaxListed } :
                           \A i, j \in 1..Len(m) : i # j => m[i].Name # m[j].Name } }

\* the resource ids of instances: resource group in upper or lower case, or
\* an id that is no resource id
ListedInstanceIDs ==
    { [wellFormed |-> TRUE, resourceGroup |-> "MC_RG", vm |-> "0"],
      [wellFormed |-> TRUE, resourceGroup |-> "mc_rg", vm |-> "1"],
      [wellFormed |-> FALSE, resourceGroup |-> "", vm |-> ""] }

\* scalesets Client.ListInstances
InstanceListings ==
    { [err |-> New("list instances failed"), instances |-> <<>>] }
        \cup { [err |-> NilError, instances |-> l] :
                 l \in UNION { [1..n -> ListedInstanceIDs] : n \in 0..MaxListed } }

ToLower(str) == IF str = "MC_RG" THEN "mc_rg" ELSE str

\* azureutil.ConvertResourceGroupNameToLower(azure.ProviderIDPrefix + id)
ConvertResourceGroupNameToLower(id) ==
    IF id.wellFormed
    THEN [providerID |-> <<"azure://", ToLower(id.resourceGroup), id.vm>>,
          err |-> NilError]
    ELSE [providerID |-> <<>>, err |-> New("invalid provider ID")]

\* the loop over the instances: the first id that does not convert ends it
RECURSIVE ConvertInstances(_)
ConvertInstances(instances) ==
    IF instances = <<>> THEN [providerIDs |-> <<>>, err |-> NilError]
    ELSE LET h == ConvertResourceGroupNameToLower(Head(instances))
             t == ConvertInstances(Tail(instances))
         IN IF h.err # NilError
            THEN [providerIDs |-> <<>>,
                  err |-> Wrap(h.err, "failed to parse instance ID")]
            ELSE IF t.err # NilError THEN t
            ELSE [providerIDs |-> <<h.providerID>> \o t.providerIDs, err |-> NilError]

NoScaleSet == [Name |-> "nil"]

\* a match that takes the first scale set of the listing
MatchScaleSet_First(listed, agentPoolName) ==
    IF listed = <<>> THEN NoScaleSet ELSE listed[1]

\* the first scale set of the listing whose poolName or aks-managed-poolName
\* tag is the name of the agent pool
MatchScaleSet(listed, agentPoolName) ==
    LET tagged == { i \in 1..Len(listed) :
                      \/ listed[i].poolName # "nil" /\ listed[i].poolName = agentPoolName
                      \/ /\ listed[i].aksManagedPoolName # "nil"
                         /\ listed[i].aksManagedPoolName = agentPoolName }
    IN IF tagged = {} THEN NoScaleSet
       ELSE listed[CHOOSE i \in tagged : \A j \in tagged : i <= j]

\* azureManagedMachinePoolService.Reconcile, from what the agentpools
\* service left (a), the listing of scale sets (l) and of instances (li)
ManagedReconcilePass(a, l, li) ==
    LET match == MatchScaleSet(l.vmss, AgentPoolName)
        conv == ConvertInstances(li.instances)
    IN IF a.ret.err # NilError
       THEN [scope |-> a.scope, at |-> "agentpools",
             ret |-> [a.ret EXCEPT !.err = Wrap(@, "failed to reconcile machine pool")]]
       ELSE IF l.err # NilError
       THEN [scope |-> a.scope, at |-> "List",
             ret |-> Plain(Wrap(l.err, "failed to list vmss in resource group"))]
       ELSE IF match = NoScaleSet
       THEN [scope |-> a.scope, at |-> "match",
             ret |-> WithTransientError(New("failed to find vm scale set"),
                                        AgentPoolVMSSNotFoundDelay)]
       ELSE IF li.err # NilError
       THEN [scope |-> a.scope, at |-> "ListInstances",
             ret |-> Plain(Wrap(li.err, "failed to reconcile machine pool"))]
       ELSE IF conv.err # NilError
       THEN [scope |-> a.scope, at |-> "convert", ret |-> Plain(conv.err)]
       ELSE [scope |-> SetAgentPoolReady(
                         SetAgentPoolReplicas(
                           SetAgentPoolProviderIDList(a.scope, conv.providerIDs),
                           Len(conv.providerIDs)),
                         TRUE),
             at |-> "done", ret |-> Plain(NilError)]

\* the controller makes a scope of the objects it fetched
NewManagedMachinePoolScope ==
    /\ ~managed.scope.open
    /\ managed' = [managed EXCEPT
                     !.scope = NewManagedMachinePoolScopeOf(managed.pool,
                                                            managed.controlPlane),
                     !.last = [NoManaged.last EXCEPT !.kind = "new"]]
    /\ UNCHANGED unmanagedVars

\* the controller reconciles the pool through the scope
ManagedReconcile ==
    /\ managed.scope.open
    /\ managed.last.kind = "new"
    /\ \E a \in AgentPoolsCall(managed.scope, "PUT"), l \in ScaleSetListings,
          li \in InstanceListings :
         LET o == ManagedReconcilePass(a, l, li)
             listed == o.at \in {"match", "ListInstances", "convert", "done"}
             asked == o.at \in {"ListInstances", "convert", "done"}
         IN managed' = [managed EXCEPT
                          !.scope = o.scope,
                          !.last = [kind |-> "reconcile", ret |-> o.ret, at |-> o.at,
                                    stored |-> a.stored,
                                    vmss |-> IF listed THEN l.vmss ELSE <<>>,
                                    listed |-> IF asked
                                               THEN MatchScaleSet(l.vmss,
                                                                  AgentPoolName).Name
                                               ELSE "",
                                    instances |-> IF o.at \in {"convert", "done"}
                                                  THEN li.instances ELSE <<>>]]
    /\ UNCHANGED unmanagedVars

\* azureManagedMachinePoolService.Delete
ManagedDelete ==
    /\ managed.scope.open
    /\ managed.last.kind = "new"
    /\ \E a \in AgentPoolsCall(managed.scope, "DELETE") :
         managed' = [managed EXCEPT
                       !.scope = a.scope,
                       !.last = [NoManaged.last EXCEPT
                                   !.kind = "delete",
                                   !.ret = IF a.ret.err = NilError THEN a.ret
                                           ELSE [a.ret EXCEPT !.err =
                                                   Wrap(@, "failed to delete machine pool")],
                                   !.at = "agentpools",
                                   !.stored = a.stored]]
    /\ UNCHANGED unmanagedVars

\* the controller closes the scope when the pass is over: what the patch
\* wrote is persisted, the scope and the objects it held are gone
ManagedClose ==
    /\ managed.scope.open
    /\ \E o \in ManagedClosePass(managed.scope, managed.pool) :
         managed' = [managed EXCEPT
                       !.pool = o.pool,
                       !.scope = NoManaged.scope,
                       !.last = [NoManaged.last EXCEPT
                                   !.kind = "close", !.ret = Plain(o.err),
                                   !.stored = managed.last.stored]]
    /\ UNCHANGED unmanagedVars

\* a managed pool persisted as created, next to a control plane that holds
\* the future of another service or none
ManagedInit ==
    /\ spec = PlainSpec
    /\ sku = ValidSKU
    /\ maxSurge = 0
    /\ future = NoFuture
    /\ vmss = NoVMSS
    /\ op = NoOp
    /\ vmssState = Nil
    /\ providerID = ""
    /\ bootstrap = "Unknown"
    /\ pass = IdlePass
    /\ machines = {}
    /\ status = NoStatus
    /\ closed = IdleClose
    /\ requeue = "none"
    /\ peer = NoPeer
    /\ \E fs \in {{}, {ClusterFuture}} :
           managed = [NoManaged EXCEPT !.controlPlane.futures = fs]

ManagedNext ==
    \/ NewManagedMachinePoolScope
    \/ ManagedReconcile
    \/ ManagedDelete
    \/ ManagedClose

ManagedSpec == ManagedInit /\ [][ManagedNext]_vars

\* =================================================================== claims
\* what the last pass did, read off its call trace
MutatingAPIs == {"CreateOrUpdateAsync", "UpdateAsync", "DeleteAsync"}
CloudAPIs == MutatingAPIs \cup {"Get", "ListInstances", "GetResultIfDone"}
CheckpointAPIs == {"SetLongRunningOperationState", "DeleteLongRunningOperationState"}

CallsOf(apis) == {i \in 1..Len(pass.calls) : pass.calls[i].api \in apis}
Refused == {i \in CallsOf(MutatingAPIs) : pass.calls[i].res # "Accepted"}
Stores == CallsOf({"SetLongRunningOperationState"})

FutureTypeOf(api) ==
    IF api = "CreateOrUpdateAsync" THEN "PUT"
    ELSE IF api = "UpdateAsync" THEN "PATCH"
    ELSE "DELETE"

\* a Reconcile pass that got past validateSpec
Reconciled == pass.kind = "Reconcile" /\ pass.calls # <<>>
\* the answer to the fetch or poll a Reconcile pass starts with
FetchResult ==
    IF pass.calls[1].res = "OK" THEN pass.calls[2].res ELSE pass.calls[1].res
Polled == Reconciled /\ pass.calls[1].api = "GetResultIfDone"
Fetched == Reconciled /\ pass.calls[1].api = "Get"

\* C1: a Reconcile pass over a spec that fails validateSpec returns the
\* validation error, makes no cloud call at all (no Get, no poll, no create,
\* no patch) and neither stores nor clears a future.
C1_InvalidSpecNoCloudCall ==
    (pass.kind = "Reconcile" /\ validateSpec(spec, sku) # NilError)
        => /\ pass.ret = Err(Error(validateSpec(spec, sku)), "validateSpec")
           /\ CallsOf(CloudAPIs) = {}
           /\ CallsOf(CheckpointAPIs) = {}
           /\ future = pass.before

\* the one-vCPU size is refused while a future is stored, and the future stays
C1_Witness ==
    /\ pass.kind = "Reconcile"
    /\ sku.vCPUs < MinimumVCPUS
    /\ pass.ret.err = "terminal: vCPUs"
    /\ pass.before # NoFuture
    /\ future = pass.before

\* C2: no pass, Reconcile or Delete, makes more than one of the calls
\* CreateOrUpdateAsync, UpdateAsync, DeleteAsync.
C2_AtMostOneMutatingCall == Cardinality(CallsOf(MutatingAPIs)) <= 1

\* a pass whose one mutating call, a create, was refused
C2_Witness ==
    /\ Reconciled
    /\ \E i \in Refused : pass.calls[i].api = "CreateOrUpdateAsync"
    /\ Cardinality(CallsOf(MutatingAPIs)) = 1

\* C3: a future is stored only by a pass that started without one, or whose
\* poll of the stored one saw its operation complete; and a pass stores at
\* most one.
C3_NoStoreWhileUnresolved ==
    /\ Cardinality(Stores) <= 1
    /\ (Stores # {} /\ pass.before # NoFuture)
           => /\ pass.calls[1].api = "GetResultIfDone"
              /\ pass.calls[1].res \in {"OK", "NotFound"}
              /\ \A i \in Stores : i > 1

\* a patch accepted and recorded over a stored future whose poll was complete
C3_Witness ==
    /\ pass.before # NoFuture
    /\ pass.calls # <<>>
    /\ pass.calls[1].api = "GetResultIfDone"
    /\ pass.calls[1].res = "OK"
    /\ Stores # {}

\* C4: SetLongRunningOperationState comes right after the mutating call of
\* its kind was accepted, never otherwise; a pass whose mutating call was
\* refused (an error, a cancelled context) writes no future and leaves the
\* stored one as it was when the pass started.
C4_StoreOnlyAfterAccepted ==
    /\ \A i \in Stores :
           /\ i > 1
           /\ pass.calls[i - 1].api \in MutatingAPIs
           /\ pass.calls[i - 1].res = "Accepted"
           /\ pass.calls[i].res = FutureTypeOf(pass.calls[i - 1].api)
    /\ Refused # {} => (CallsOf(CheckpointAPIs) = {} /\ future = pass.before)

\* a refused patch in a pass that started with a stored future
C4_Witness ==
    /\ pass.before # NoFuture
    /\ \E i \in Refused : pass.calls[i].api = "UpdateAsync"
    /\ future = pass.before

\* C5: a Reconcile pass whose poll says not done, or whose poll or fetch
\* fails with anything but not-found, returns that error, makes no mutating
\* call and leaves the stored future unchanged.
C5_FetchErrorStopsPass ==
    (Reconciled /\ FetchResult \notin {"OK", "NotFound"})
        => /\ pass.ret = Err(FetchResult, "get")
           /\ CallsOf(MutatingAPIs) = {}
           /\ CallsOf(CheckpointAPIs) = {}
           /\ future = pass.before

\* the poll of a stored future says the operation is not done
C5_Witness ==
    /\ Polled
    /\ FetchResult = "NotDone"
    /\ pass.ret.err = "NotDone"
    /\ future # NoFuture

\* ---- the diff of a Reconcile pass that found the scale set, written out
Found == Reconciled /\ pass.infra # Nil
\* buildVMSSFromSpec and MaxSurge gave the pass a desired scale set and a surge
Compiled == pass.ret.err \notin {"BuildError", "MaxSurgeError"}
ModelDiff == pass.infra.Model # spec.Model
Stale == \E i \in pass.infra.Instances : i.model # pass.infra.Model
SurgeTarget ==
    IF maxSurge > 0 /\ (ModelDiff \/ Stale)
    THEN spec.Capacity + maxSurge
    ELSE spec.Capacity
NothingRequired == SurgeTarget <= pass.infra.Capacity /\ ~ModelDiff
Patches == CallsOf({"UpdateAsync"})
Creates == CallsOf({"CreateOrUpdateAsync"})
\* the answer to the poll that follows the accepted call at position i
AfterResult(i) ==
    IF pass.calls[i + 2].res = "OK" THEN pass.calls[i + 3].res ELSE pass.calls[i + 2].res

\* C6 as claimed: a Reconcile pass whose poll of the stored future reports
\* the operation complete goes straight to success: no create, no patch, no
\* new future, the future cleared, nil returned.
C6_PollCompleteGoesToSuccess ==
    (Polled /\ FetchResult = "OK" /\ Compiled)
        => /\ Creates \cup Patches = {}
           /\ Stores = {}
           /\ pass.ret = NoError
           /\ future = NoFuture

\* C6 as the code has it: a Reconcile pass whose poll of the stored future
\* reports the operation complete runs the diff on the polled scale set.
\* Nothing to update: no create, no patch, no new future, the future cleared,
\* nil returned.  Something to update: one patch with the surge target, the
\* new future stored when it is accepted, and the old future cleared only if
\* the pass ends in success.
C6_PollCompleteRunsDiff ==
    (Polled /\ FetchResult = "OK" /\ Compiled)
        => IF NothingRequired
           THEN /\ CallsOf(MutatingAPIs) = {}
                /\ Stores = {}
                /\ CallsOf({"DeleteLongRunningOperationState"}) # {}
                /\ pass.ret = NoError
                /\ future = NoFuture
           ELSE /\ Creates = {}
                /\ Cardinality(Patches) = 1
                /\ \A i \in Patches :
                       /\ pass.calls[i].cap = SurgeTarget
                       /\ pass.calls[i].res = "Accepted" <=> Stores # {}
                /\ (pass.ret # NoError /\ Stores = {}) => future = pass.before
                /\ pass.ret = NoError <=> CallsOf({"DeleteLongRunningOperationState"}) # {}

\* the poll is complete, nothing is to update, the future is cleared
C6_Witness ==
    /\ Polled
    /\ FetchResult = "OK"
    /\ NothingRequired
    /\ pass.before # NoFuture
    /\ future = NoFuture
    /\ pass.ret = NoError

\* C7 as claimed: a Reconcile pass with a valid spec, no stored future and a
\* fetch answering not-found, whose create is accepted, stores the future and
\* returns the operation-not-done error: it never returns nil.
C7_CreateNeverSucceedsInPass ==
    (Fetched /\ pass.before = NoFuture /\ FetchResult = "NotFound"
        /\ \E i \in Creates : pass.calls[i].res = "Accepted")
        => /\ pass.ret.err = "NotDone"
           /\ future = [Type |-> "PUT"]

\* C7 as the code has it: such a pass makes one create call carrying the
\* spec's capacity (none when the scale set cannot be compiled) and no other
\* mutating call; a refused create is returned as the error and stores
\* nothing; an accepted create stores its future and is polled in the same
\* pass: not done or a failed poll is returned with the future kept, done
\* clears the future and returns nil.
C7_NotFoundCreates ==
    (Fetched /\ pass.before = NoFuture /\ FetchResult = "NotFound")
        => /\ CallsOf(MutatingAPIs) = Creates
           /\ Cardinality(Creates) <= 1
           /\ Creates = {} <=> pass.ret = Err("BuildError", "create")
           /\ \A i \in Creates :
                  /\ pass.calls[i].cap = spec.Capacity
                  /\ IF pass.calls[i].res # "Accepted"
                     THEN /\ pass.ret = Err(pass.calls[i].res, "create")
                          /\ Stores = {}
                          /\ future = NoFuture
                     ELSE /\ Stores = {i + 1}
                          /\ pass.calls[i + 2].api = "GetResultIfDone"
                          /\ IF AfterResult(i) = "OK"
                             THEN pass.ret = NoError /\ future = NoFuture
                             ELSE /\ pass.ret = Err(AfterResult(i), "after")
                                  /\ future = [Type |-> "PUT"]

\* the create is accepted with the spec's capacity, the poll says not done
C7_Witness ==
    /\ Fetched
    /\ FetchResult = "NotFound"
    /\ spec.Capacity > 0
    /\ \E i \in Creates :
           /\ pass.calls[i].res = "Accepted"
           /\ pass.calls[i].cap = spec.Capacity
    /\ pass.ret.err = "NotDone"
    /\ future = [Type |-> "PUT"]

\* C8: a Reconcile pass that finds the scale set with the spec's capacity,
\* no model difference and every instance on the latest model makes no
\* mutating call, stores no future and leaves the scale set as it found it;
\* with the desired scale set compiled it returns nil with no future stored.
\* The next pass finds the same, so this holds of every further pass.
C8_ConvergedIsIdempotent ==
    (Found /\ pass.infra.Capacity = spec.Capacity /\ ~ModelDiff /\ ~Stale)
        => /\ CallsOf(MutatingAPIs) = {}
           /\ Stores = {}
           /\ vmss.exists /\ Observed(vmss) = pass.infra
           /\ Compiled => (pass.ret = NoError /\ future = NoFuture)

\* a converged scale set with instances, reconciled to success
C8_Witness ==
    /\ Found
    /\ pass.infra.Capacity = spec.Capacity
    /\ spec.Capacity > 0
    /\ Cardinality(pass.infra.Instances) = spec.Capacity
    /\ ~ModelDiff /\ ~Stale
    /\ pass.ret = NoError
    /\ pass.before = NoFuture

\* C9: every patch Reconcile sends carries D+S when S > 0 and (the model
\* differs or some instance is not on the latest model), D otherwise.
C9_SurgeFormula ==
    Reconciled =>
        \A i \in Patches :
            pass.calls[i].cap =
                IF maxSurge > 0
                   /\ (pass.infra.Model # spec.Model
                       \/ \E inst \in pass.infra.Instances : inst.model # pass.infra.Model)
                THEN spec.Capacity + maxSurge
                ELSE spec.Capacity

\* a patch of a model difference carrying D+S
C9_Witness ==
    /\ Reconciled
    /\ maxSurge > 0
    /\ spec.Capacity > 0
    /\ \E i \in Patches :
           /\ pass.infra.Model # spec.Model
           /\ pass.calls[i].cap = spec.Capacity + maxSurge

PolledStored ==
    /\ pass.before # NoFuture
    /\ pass.calls # <<>>
    /\ pass.calls[1].api = "GetResultIfDone"
Clears == CallsOf({"DeleteLongRunningOperationState"})
Deleted == pass.kind = "Delete"
Deletes == CallsOf({"DeleteAsync"})

\* no call of the pass was refused or lost on the way, and the desired scale
\* set compiled
Undisturbed ==
    /\ \A i \in 1..Len(pass.calls) : pass.calls[i].res \notin {"Error", "Conflict"}
    /\ pass.ret.err \notin {"BuildError", "MaxSurgeError"}

\* C11: a pass whose poll of the stored future sees the operation complete
\* (done, the resource gone, or the operation failed for good) does not leave
\* that future stored: it clears it, or stores the future of a new operation
\* in its place; a future whose operation failed is gone after the pass.
C11_ClearedWhenObservedComplete ==
    (PolledStored /\ Undisturbed /\ pass.calls[1].res \in {"OK", "NotFound", "Failed"})
        => /\ Clears # {} \/ Stores # {}
           /\ pass.calls[1].res = "Failed" => future = NoFuture

\* C14: a Delete pass that starts with a stored future and whose poll sees
\* completion, a not-found answer included, finalizes the deletion: future
\* cleared, delete status recorded, no DeleteAsync, nil returned.
C14_DeletePollCompleteFinalizes ==
    (Deleted /\ PolledStored /\ pass.calls[1].res \in {"OK", "NotFound"})
        => /\ Clears # {}
           /\ future = NoFuture
           /\ bootstrap = "Deleted"
           /\ Deletes = {}
           /\ pass.ret = NoError

\* C15: a Delete pass without a stored future whose DeleteAsync is answered
\* not-found returns nil and stores no future; the scale set is still absent
\* and no future is stored after it, so a repeated Delete answered the same
\* way returns nil again.
C15_DeleteAbsentIsSuccess ==
    (Deleted /\ pass.before = NoFuture /\ \E i \in Deletes : pass.calls[i].res = "NotFound")
        => /\ Cardinality(Deletes) = 1
           /\ pass.ret = NoError
           /\ Stores = {} /\ Clears = {}
           /\ future = NoFuture
           /\ ~vmss.exists

\* Delete on a scale set that is gone returns nil
C15_Witness ==
    /\ Deleted
    /\ pass.before = NoFuture
    /\ pass.calls[1] = [api |-> "DeleteAsync", res |-> "NotFound", cap |-> 0]
    /\ pass.ret = NoError
    /\ future = NoFuture

\* C16 as claimed: a Delete pass without a stored future whose DeleteAsync is
\* accepted stores the future and returns an error in that same pass.
C16_DeleteNeverSucceedsInPass ==
    (Deleted /\ pass.before = NoFuture /\ \E i \in Deletes : pass.calls[i].res = "Accepted")
        => /\ pass.ret # NoError
           /\ future = [Type |-> "DELETE"]

\* C16 as the code has it: an accepted DeleteAsync has its future stored and
\* polled in the same pass: not done or a failed poll is returned with the
\* future kept, done clears the future, records the delete status and
\* returns nil.  A DeleteAsync refused with anything but not-found is
\* returned as the error and stores nothing.
C16_DeleteAcceptedIsPolled ==
    (Deleted /\ pass.before = NoFuture)
        => \A i \in Deletes :
               IF pass.calls[i].res = "Accepted"
               THEN /\ Stores = {i + 1}
                    /\ pass.calls[i + 2].api = "GetResultIfDone"
                    /\ IF pass.calls[i + 2].res = "OK"
                       THEN /\ pass.ret = NoError
                            /\ future = NoFuture
                            /\ bootstrap = "Deleted"
                       ELSE /\ pass.ret = Err(pass.calls[i + 2].res, "after")
                            /\ future = [Type |-> "DELETE"]
               ELSE pass.calls[i].res # "NotFound"
                        => /\ pass.ret = Err(pass.calls[i].res, "delete")
                           /\ Stores = {}
                           /\ future = NoFuture

\* the DELETE is accepted, its future stored, the poll says not done
C16_Witness ==
    /\ Deleted
    /\ pass.before = NoFuture
    /\ \E i \in Deletes : pass.calls[i].res = "Accepted"
    /\ pass.ret.err = "NotDone"
    /\ future = [Type |-> "DELETE"]

\* C17: a Delete pass returns nil only if a DeleteAsync was accepted in this
\* pass or an earlier one (the stored future is that of a DELETE), or was
\* answered not-found; never on a completed create or patch alone.
C17_DeleteSuccessNeedsDelete ==
    (Deleted /\ pass.ret = NoError)
        => \/ \E i \in Deletes : pass.calls[i].res \in {"Accepted", "NotFound"}
           \/ pass.before.Type = "DELETE"

\* C18: every Delete pass ends with one refresh fetch (Get, then
\* ListInstances when Get answers) after everything else it does, and calls
\* SetVMSSState, with what it fetched, exactly when the fetch succeeded.
C18_DeleteRefreshesOnce ==
    Deleted =>
        /\ Cardinality(CallsOf({"Get"})) = 1
        /\ CallsOf({"SetProviderID"}) = {}
        /\ \A g \in CallsOf({"Get"}) :
               /\ \A j \in 1..Len(pass.calls) :
                      IF j < g
                      THEN pass.calls[j].api \notin {"ListInstances", "SetVMSSState"}
                      ELSE j > g => pass.calls[j].api \in {"ListInstances", "SetVMSSState"}
               /\ IF /\ pass.calls[g].res = "OK"
                     /\ Len(pass.calls) > g
                     /\ pass.calls[g + 1] = [api |-> "ListInstances", res |-> "OK"]
                  THEN /\ Len(pass.calls) = g + 2
                       /\ pass.calls[g + 2].api = "SetVMSSState"
                       /\ vmss.exists /\ vmssState = Observed(vmss)
                  ELSE /\ CallsOf({"SetVMSSState"}) = {}
                       /\ vmssState = Nil

\* Delete returns not done and still publishes the scale set it fetched
C18_Witness ==
    /\ Deleted
    /\ pass.ret.err = "NotDone"
    /\ CallsOf({"SetVMSSState"}) # {}
    /\ vmssState # Nil
    /\ vmssState.State = "Deleting"

\* C19 as claimed: for a spec that fails validateSpec no pass, Reconcile or
\* Delete, sends DeleteAsync.
C19_InvalidSpecNeverDeletes ==
    validateSpec(spec, sku) # NilError => Deletes = {}

\* C19 as the code has it: for a spec that fails validateSpec a Reconcile
\* pass sends no mutating call, DeleteAsync included; Delete does not run
\* validateSpec, and a Delete pass without a stored future sends its
\* DeleteAsync first thing whatever the spec.
C19_OnlyReconcileIsGated ==
    /\ (pass.kind = "Reconcile" /\ validateSpec(spec, sku) # NilError)
           => CallsOf(MutatingAPIs) = {}
    /\ (Deleted /\ pass.before = NoFuture)
           => /\ Cardinality(Deletes) = 1
              /\ pass.calls[1].api = "DeleteAsync"

\* the scale set of a spec that does not validate is being deleted
C19_Witness ==
    /\ Deleted
    /\ validateSpec(spec, sku) # NilError
    /\ \E i \in Deletes : pass.calls[i].res = "Accepted"
    /\ vmss.exists

\* ---- what a pass publishes
Publishes == CallsOf({"SetVMSSState"})
\* the pass ends on a fetch that did not bring a scale set back
EndsOnFailedFetch ==
    /\ pass.calls # <<>>
    /\ pass.calls[Len(pass.calls)].api \in {"Get", "ListInstances"}
    /\ pass.calls[Len(pass.calls)].res # "OK"

\* C13 as claimed: every Reconcile pass, a validation failure included,
\* publishes the scale set when it exists, or ends on a refresh fetch that
\* failed.
C13_PublishesOnEveryReturn ==
    (pass.kind = "Reconcile" /\ vmss.exists)
        => (vmssState # Nil \/ EndsOnFailedFetch)

\* C13 as the code has it: every Reconcile pass that gets past validateSpec
\* publishes on every return path: SetProviderID and SetVMSSState are its
\* last calls and carry the scale set as it is after the pass, or, when the
\* main path ended without a scale set, the pass ends on a refresh fetch
\* that failed or found nothing.  A pass stopped by validateSpec fetches and
\* publishes nothing.
C13_PublishesAfterValidation ==
    /\ Reconciled
           => /\ vmssState # Nil <=> Publishes # {}
              /\ IF vmssState # Nil
                 THEN /\ vmss.exists
                      /\ vmssState = Observed(vmss)
                      /\ providerID = vmssState.ID
                      /\ Publishes = {Len(pass.calls)}
                      /\ pass.calls[Len(pass.calls) - 1].api = "SetProviderID"
                 ELSE EndsOnFailedFetch
    /\ (pass.kind = "Reconcile" /\ ~Reconciled)
           => /\ validateSpec(spec, sku) # NilError
              /\ vmssState = Nil
              /\ Publishes = {}

\* the pass returns an error of the main path and publishes what its refresh
\* fetched
C13_Witness ==
    /\ Reconciled
    /\ pass.ret.at = "after"
    /\ pass.ret.err = "Error"
    /\ pass.calls[Len(pass.calls) - 3].api = "Get"
    /\ vmssState # Nil
    /\ vmssState = Observed(vmss)

\* ---- liveness
\* two polls of one pass are polls of different futures: one was stored in
\* between
PollsEachFutureOnce ==
    \A i, j \in CallsOf({"GetResultIfDone"}) :
        i < j => \E k \in Stores : i < k /\ k < j
Success == pass.kind = "Reconcile" /\ pass.ret = NoError /\ future = NoFuture

\* C12: with a spec that validates, passes that keep coming and Azure
\* completing every operation it accepted, once the spec stops changing a
\* Reconcile pass eventually returns nil with no future stored (and again
\* ever after); and no pass polls the same future twice.
C12_EventuallySuccess ==
    /\ []PollsEachFutureOnce
    /\ ([]<><<EditSpec>>_vars \/ []<>Success)

\* a pass that polls the stored future once, finds it done and returns nil
C12_Witness ==
    /\ Polled
    /\ pass.before # NoFuture
    /\ Cardinality(CallsOf({"GetResultIfDone"})) = 1
    /\ Success

\* ---------------------------------------------------- claims about Close
\* the last Close ran on a published scale set and listed the machines
Synced ==
    /\ closed.state # Nil
    /\ Len(closed.calls) >= 1
    /\ closed.calls[1] = [api |-> "List", key |-> "", res |-> "OK"]

StoreCalls(api) == { i \in 1..Len(closed.calls) : closed.calls[i].api = api }

ObservedIDs == { ProviderIDOf(i) : i \in closed.state.Instances }

RecordedIDs == ExistingIDs(closed.before)

MissingIDs == ObservedIDs \ RecordedIDs

CreateAttempts == { closed.calls[i].key : i \in StoreCalls("Create") }

CreatedIDs == { closed.calls[i].key : i \in { j \in StoreCalls("Create") :
                                                 closed.calls[j].res = "OK" } }

\* the pass ended in the first loop: the error of a create that failed is
\* returned and nothing is deleted or selected after it
CreateFailed ==
    /\ closed.ret # "nil"
    /\ StoreCalls("Delete") = {}
    /\ StoreCalls("SelectMachinesToDelete") = {}
    /\ StoreCalls("Patch") = {}
    /\ Cardinality(StoreCalls("List")) = 1
    /\ CreatedIDs # MissingIDs

\* C20: a Close on a published scale set creates a machine for every
\* observed instance whose provider id no machine has, unless a create fails
\* and ends the pass, and attempts no create for any other provider id; the
\* machines it creates are not ready and marked as creating; the machines that
\* were there are not created again and stay as they were.
C20_CreatesMissingOnly ==
    Synced =>
        /\ CreateAttempts \subseteq MissingIDs
        /\ Cardinality(StoreCalls("Create")) = Cardinality(CreateAttempts)
        /\ CreatedIDs = MissingIDs \/ CreateFailed
        /\ \A k \in CreatedIDs :
               \E m \in machines \ closed.before :
                   /\ m.ProviderID = k
                   /\ ~m.Ready
                   /\ m.VMRunning = "Creating"
        /\ \A m \in machines : m.ProviderID \in RecordedIDs => m \in closed.before
        /\ Cardinality(machines) = Cardinality(ExistingIDs(machines))

C20_Witness ==
    /\ Synced
    /\ closed.ret = "nil"
    /\ Cardinality(closed.state.Instances) >= 2
    /\ MissingIDs # {}
    /\ CreatedIDs = MissingIDs
    /\ \E m \in closed.before : m.Ready /\ m.ProviderID \in ObservedIDs /\ m \in machines

\* ---- deleting machines
\* the machines of before the pass whose instance is not observed any more
GoneIDs == RecordedIDs \ ObservedIDs

DeleteAttempts == { closed.calls[i].key : i \in StoreCalls("Delete") }

DeletedIDs == { closed.calls[i].key : i \in { j \in StoreCalls("Delete") :
                                                 closed.calls[j].res = "OK" } }

\* the pass ended in a loop that deletes: the error of the delete that
\* failed is returned, it is the last call of the pass
DeleteFailed ==
    /\ closed.ret # "nil"
    /\ closed.calls[Len(closed.calls)].api = "Delete"
    /\ closed.calls[Len(closed.calls)].res # "OK"

Selections == StoreCalls("SelectMachinesToDelete")

\* C21: a Close on a published scale set deletes every machine whose
\* provider id is not observed any more, unless a create or a delete fails and
\* ends the pass; when there is such a machine the selector is not asked and
\* no machine whose instance is observed is deleted.  What is deleted is gone
\* from the store.
C21_GoneDeletedThenStop ==
    Synced =>
        /\ GoneIDs \subseteq DeletedIDs \/ CreateFailed \/ DeleteFailed
        /\ GoneIDs # {} => /\ Selections = {}
                           /\ DeleteAttempts \subseteq GoneIDs
        /\ DeletedIDs \cap ExistingIDs(machines) = {}
        /\ Cardinality(StoreCalls("Delete")) = Cardinality(DeleteAttempts)

\* a machine is gone and deleted while more machines than desired are
\* observed, a selector is set and no future is stored
C21_Witness ==
    /\ Synced
    /\ closed.ret = "nil"
    /\ GoneIDs # {}
    /\ GoneIDs = DeletedIDs
    /\ closed.strategy
    /\ closed.future = NoFuture
    /\ Cardinality(RecordedIDs \cap ObservedIDs) > closed.desired
    /\ RecordedIDs \cap ObservedIDs \subseteq ExistingIDs(machines)

\* C22: a Close that runs while a future of the scalesets service is stored
\* does not ask the selector and deletes no machine whose instance is
\* observed: those machines stay in the store as they were.
C22_NoSelectionWhileFuture ==
    (Synced /\ closed.future # NoFuture) =>
        /\ Selections = {}
        /\ DeleteAttempts \subseteq GoneIDs
        /\ \A m \in closed.before : m.ProviderID \in ObservedIDs => m \in machines

\* more machines than desired, all observed, a selector set, a future stored
C22_Witness ==
    /\ Synced
    /\ closed.future # NoFuture
    /\ closed.ret = "nil"
    /\ closed.strategy
    /\ GoneIDs = {}
    /\ Cardinality(RecordedIDs) > closed.desired
    /\ closed.before \subseteq machines

\* C23: a Close on a published scale set with no machine gone from it and
\* no future stored, once its creates went through: with a selector, it asks
\* the selector once, for the desired replicas and with the machines of
\* before the pass, and deletes the machines it answers and no other, unless
\* a delete fails and ends the pass; an error of the selector is returned and
\* nothing is deleted.  Without a selector nothing is asked or deleted.
C23_DeletesWhatIsSelected ==
    (Synced /\ GoneIDs = {} /\ closed.future = NoFuture /\ ~CreateFailed) =>
        IF closed.strategy
        THEN /\ Cardinality(Selections) = 1
             /\ \A i \in Selections :
                    /\ closed.calls[i].desired = closed.desired
                    /\ closed.calls[i].from = RecordedIDs
                    /\ closed.calls[i].res = "OK" =>
                           /\ DeleteAttempts \subseteq closed.calls[i].toDelete
                           /\ DeletedIDs = closed.calls[i].toDelete \/ DeleteFailed
                           /\ \A j \in StoreCalls("Delete") : j > i
                    /\ closed.calls[i].res # "OK" =>
                           /\ DeleteAttempts = {}
                           /\ closed.ret = closed.calls[i].res
             /\ ExistingIDs(machines) = (RecordedIDs \cup CreatedIDs) \ DeletedIDs
        ELSE /\ Selections = {}
             /\ DeleteAttempts = {}
             /\ closed.before \subseteq machines

\* the selector picks one machine of two, the other one stays
C23_Witness ==
    /\ Synced
    /\ closed.strategy
    /\ closed.ret = "nil"
    /\ \E i \in Selections :
           /\ closed.calls[i].toDelete # {}
           /\ closed.calls[i].toDelete # closed.calls[i].from
           /\ DeletedIDs = closed.calls[i].toDelete
    /\ ExistingIDs(machines) = RecordedIDs \ DeletedIDs
    /\ ExistingIDs(machines) # {}

\* ---- provider ids
UniqueProviderIDs == Cardinality(machines) = Cardinality(ExistingIDs(machines))

\* a machine that is in the store before and after a step, under its name,
\* has the provider id it had
KeepsProviderID ==
    \A m \in machines, n \in machines' :
        n.Name = m.Name => n.ProviderID = m.ProviderID

\* C24: over any sequence of passes, no two machines of the pool have the
\* same provider id, no Close calls Create for a provider id a machine of the
\* store has, and a machine keeps its provider id as long as it is in the
\* store.
C24_ProviderIDUniqueAndStable ==
    /\ [](/\ UniqueProviderIDs
          /\ Synced => CreateAttempts \cap RecordedIDs = {})
    /\ [][KeepsProviderID]_vars

\* a pass, after one that persisted machines, creates a machine and deletes
\* another one
C24_Witness ==
    /\ Synced
    /\ closed.ret = "nil"
    /\ status.ProviderIDList # {}
    /\ CreatedIDs # {}
    /\ DeletedIDs # {}
    /\ machines # {}

\* ---- what Close persists
\* C25: a Close on a published scale set that went through to the patch
\* leaves Status.Replicas at the number of machines that are ready and the
\* provider id list at the provider ids of the machines in the store after
\* the pass, whatever number of instances was observed; Status.Replicas is
\* never above the length of the provider id list.
C25_CountersFromMachines ==
    /\ (Synced /\ closed.patched) =>
           /\ status.Replicas = Cardinality({m \in machines : m.Ready})
           /\ status.ProviderIDList = ExistingIDs(machines)
    /\ status.Replicas <= Cardinality(status.ProviderIDList)

\* two instances observed, one ready machine left after the pass
C25_Witness ==
    /\ Synced
    /\ closed.patched
    /\ Cardinality(closed.state.Instances) = 2
    /\ status.Replicas = 1
    /\ Cardinality(status.ProviderIDList) = 1
    /\ DeletedIDs # {}

\* ---- NeedsRequeue
NonTerminal == ~IsTerminalProvisioningState(status.ProvisioningState)

NotAllLatest == vmssState # Nil /\ ~HasLatestModelAppliedToAll(vmssState)

CountDiffers == vmssState # Nil /\ Cardinality(vmssState.Instances) # spec.Capacity

\* C26: NeedsRequeue is true exactly when the provisioning state is not
\* terminal (not set included), or not all instances are on the latest model,
\* or the number of observed instances differs from the desired replicas,
\* whether a scale set was published in the pass or not.
C26_RequeueIffNotSettled ==
    requeue # "none" =>
        (requeue = "true" <=> (NonTerminal \/ NotAllLatest \/ CountDiffers))

\* the store answered every call of the pass
StoreAnswered == \A i \in 1..Len(closed.calls) : closed.calls[i].res # "Error"

\* C27: the AzureMachinePool is persisted exactly once per pass, by the
\* PatchObject that ends Close, on every outcome of the pass, so that the
\* future the scope holds is the one the next pass finds. Stated for the
\* passes in which the store answered every call.
C27_PatchedOncePerPass ==
    (closed # IdleClose /\ StoreAnswered) =>
        /\ Cardinality(StoreCalls("Patch")) = 1
        /\ closed.calls[Len(closed.calls)].api = "Patch"
        /\ closed.patched
        /\ status.Future = closed.future

\* a Close of the pool on a namespace that holds no other pool
CloseAlone ==
    /\ closed = IdleClose
    /\ \E strategy \in BOOLEAN :
        \E o \in ClosePass([machines |-> machines, calls |-> <<>>], status, vmssState,
                           future, strategy, spec.Capacity) :
          /\ machines' = o.sy.machines
          /\ status' = IF o.patched THEN [o.status EXCEPT !.Future = future] ELSE status
          /\ closed' = [ret |-> o.err, calls |-> o.sy.calls, before |-> machines,
                        state |-> vmssState, future |-> future, strategy |-> strategy,
                        desired |-> spec.Capacity, patched |-> o.patched,
                        conditions |-> o.conditions]
          /\ vmssState' = Nil
          /\ UNCHANGED <<spec, maxSurge, sku, future, vmss, op, providerID, bootstrap, pass,
                         requeue, managed>>

\* a step of the other pool: nothing of this pool changes
PeerStep ==
    UNCHANGED <<spec, maxSurge, sku, future, vmss, op, vmssState, providerID,
                bootstrap, pass, machines, status, closed, requeue, managed>>

\* C28: passes of two pools interleave without interference: a pass of one
\* pool neither reads nor writes the future, the machines or the status of
\* the other, so every step is either the other pool's and leaves this
\* pool's state alone, or is the step this pool takes when it is alone in the
\* namespace and leaves the other pool's state alone.
C28_PoolsDoNotInterfere ==
    [][PeerStep \/ (/\ peer' = peer
                    /\ (NewMachinePoolScope \/ ScaleSetsPass \/ CloseAlone))]_vars

\* a pass created and deleted machines while the other pool, with a future
\* stored, had a machine in the namespace
C28_Witness ==
    /\ Synced
    /\ CreatedIDs # {}
    /\ DeletedIDs # {}
    /\ closed.ret = "nil"
    /\ peer.machines # {}
    /\ peer.future # NoFuture

\* the rules of validateSpec a spec and a SKU violate, numbered as the
\* gate lists them; a lookup that fails counts for the rule it serves
ViolatedRules(sp, sk) ==
    { r \in 1..7 :
        \/ r = 1 /\ ~sk.found
        \/ r = 2 /\ sk.vCPUs < MinimumVCPUS
        \/ r = 3 /\ sk.MemoryGB < MinimumMemory
        \/ r = 4 /\ sp.DiffDiskSettings /\ ~sk.EphemeralOSDisk
        \/ r = 5 /\ sp.SecurityProfile /\ ~sk.EncryptionAtHost
        \/ r = 6 /\ \/ sk.zonesErr
                    \/ /\ sp.UltraDataDisk \/ sp.UltraSSDEnabled = "true"
                       /\ sk.locationZones \ sk.UltraSSDAvailable # {}
        \/ r = 7 /\ \/ sk.azErr
                    \/ sp.FailureDomains \ sk.zonesWithVMSize # {} }

\* the rule an error of validateSpec belongs to
RuleOf(err) ==
    CASE err = "failed to get SKU: terminal: sku not found" -> 1
      [] err \in {"terminal: failed to validate the vCPU capability",
                  "terminal: vCPUs"} -> 2
      [] err \in {"terminal: failed to validate the memory capability",
                  "terminal: memory"} -> 3
      [] err = "terminal: ephemeral os" -> 4
      [] err = "terminal: encryption at host" -> 5
      [] err \in {"terminal: failed to get the zones", "terminal: ultra disks"} -> 6
      [] err \in {"failed to get zones for VM type",
                  "terminal: availability zone"} -> 7
      [] OTHER -> 0

FirstViolated(sp, sk) ==
    CHOOSE r \in ViolatedRules(sp, sk) : \A q \in ViolatedRules(sp, sk) : r <= q

\* C29: validateSpec checks its rules in a fixed order and stops at the
\* first one violated: for a spec that violates several rules, Reconcile
\* returns the error of the first violated rule in the order size lookup,
\* vCPUs, memory, ephemeral OS disk, encryption at host, ultra disks per
\* zone, failure domains.
C29_FirstViolatedRuleWins ==
    (pass.kind = "Reconcile" /\ ViolatedRules(spec, sku) # {}) =>
        /\ pass.ret.at = "validateSpec"
        /\ RuleOf(pass.ret.err) = FirstViolated(spec, sku)

\* a spec with an encryption option and a second failure domain on a size
\* too small in memory that supports neither: the memory error is returned
C29_Witness ==
    /\ pass.kind = "Reconcile"
    /\ ViolatedRules(spec, sku) = {3, 5, 7}
    /\ pass.ret.err = "terminal: memory"

\* C30: every error validateSpec returns, for any of its rules, an unknown
\* size and a failing lookup of the zones of the size included, is a
\* terminal error, so that the pool is not requeued for it.
C30_GateErrorsAreTerminal ==
    (pass.kind = "Reconcile" /\ pass.ret.at = "validateSpec") =>
        /\ pass.ret.err = Error(validateSpec(spec, sku))
        /\ IsTerminalError(validateSpec(spec, sku))

\* validateSpec got as far as its ultra disk rule
AtUltraRule ==
    /\ pass.kind = "Reconcile"
    /\ ViolatedRules(spec, sku) \cap (1..5) = {}
    /\ ~sku.zonesErr

UltraRequested == spec.UltraDataDisk \/ spec.UltraSSDEnabled = "true"

UltraRejected == pass.ret = Err("terminal: ultra disks", "validateSpec")

\* C31 as claimed: the spec is rejected for its ultra disks exactly when a
\* data disk asks for UltraSSD, or UltraSSDEnabled is true, and the tier is
\* missing in one of the zones the scale set is configured for; other zones
\* do not cause rejection.
C31_UltraInConfiguredZones ==
    AtUltraRule =>
        (UltraRejected <=>
            (UltraRequested /\ spec.FailureDomains \ sku.UltraSSDAvailable # {}))

\* C31: the spec is rejected for its ultra disks exactly when a data disk
\* asks for UltraSSD, or UltraSSDEnabled is true, and the tier is missing in
\* one of the zones of the location of the scale set, whether or not that
\* zone is among its failure domains; zones the location does not have do
\* not cause rejection, and UltraSSDEnabled false does not exempt a data
\* disk that asks for the tier.
C31_UltraInLocationZones ==
    AtUltraRule =>
        (UltraRejected <=>
            (UltraRequested /\ sku.locationZones \ sku.UltraSSDAvailable # {}))

\* rejected for a data disk with UltraSSDEnabled false, in a zone of the
\* location that is not a failure domain of the spec
C31_Witness ==
    /\ AtUltraRule
    /\ UltraRejected
    /\ spec.UltraDataDisk
    /\ spec.UltraSSDEnabled = "false"
    /\ spec.FailureDomains \subseteq sku.UltraSSDAvailable

\* ultra-disk-enabled as the claim computes it: the value set on the spec
\* when there is one, else true for an ultra data disk, else no block
ExpectedUltraSSDEnabled ==
    IF spec.UltraSSDEnabled # "nil" THEN spec.UltraSSDEnabled
    ELSE IF spec.UltraDataDisk THEN "true"
    ELSE "nil"

\* C32: for every combination of ultra data disk and UltraSSDEnabled on the
\* spec, a Reconcile pass that gets to compile the scale set does so
\* without fault, and the compiled AdditionalCapabilities carry the value
\* set on the spec when there is one, else true when a data disk is an ultra
\* disk, else no block at all.
C32_UltraCapabilityCompiled ==
    Reconciled =>
        /\ pass.ret.err # "panic"
        /\ (Creates \cup Patches # {} =>
                buildVMSSFromSpec(spec).AdditionalCapabilities = ExpectedUltraSSDEnabled)

\* C33: when UpdateAsync is answered with a conflict, Reconcile returns a
\* transient error whose retry delay, 30 seconds, is longer than the one of
\* an operation that is not done; it stores no future and leaves a stored
\* one in place. Any other error of UpdateAsync is returned without a
\* future being stored.
C33_ConflictIsTransient ==
    (pass.kind = "Reconcile") =>
        \A i \in Patches :
            /\ pass.calls[i].res = "Conflict" =>
                   /\ pass.ret = Err("Conflict", "patch")
                   /\ RequeueAfter(pass.ret.err) = 30
                   /\ RequeueAfter(pass.ret.err) > RequeueAfter("NotDone")
                   /\ Stores = {}
                   /\ future = pass.before
            /\ pass.calls[i].res \notin {"Conflict", "Accepted"} =>
                   /\ pass.ret = Err(pass.calls[i].res, "patch")
                   /\ Stores = {}
                   /\ future = pass.before

\* a conflict answered to a pass that had polled a stored future to its end
C33_Witness ==
    /\ pass.kind = "Reconcile"
    /\ pass.before # NoFuture
    /\ \E i \in Patches : pass.calls[i].res = "Conflict"
    /\ pass.ret = Err("Conflict", "patch")
    /\ future = pass.before

StatusUpdates == CallsOf({"UpdatePutStatus"})

\* C34 as claimed: Reconcile returns nil if and only if no future is stored
\* for the scale set when it returns.
C34_SuccessIffNoFuture ==
    pass.kind = "Reconcile" => (pass.ret = NoError <=> future = NoFuture)

\* C34: Reconcile returns nil only if no future is stored for the scale set
\* when it returns: a pass that ends with a future stored returns an error,
\* the success path clears the future, also one stored in the same pass, and
\* marks the bootstrap condition true (UpdatePutStatus with nil) right after,
\* behind every call it made, and no error path touches the condition. A pass may return an
\* error with no future stored.
C34_SuccessOnlyWithoutFuture ==
    pass.kind = "Reconcile" =>
        IF pass.ret = NoError
        THEN /\ future = NoFuture
             /\ bootstrap = "True"
             /\ \E i \in 1..Len(pass.calls) :
                    /\ pass.calls[i].api = "DeleteLongRunningOperationState"
                    /\ StatusUpdates = {i + 1}
                    /\ \A j \in CallsOf(MutatingAPIs) \cup Stores : j < i
        ELSE StatusUpdates = {}

\* a pass stores a future, polls it to its end and returns nil without it
C34_Witness ==
    /\ pass.kind = "Reconcile"
    /\ pass.ret = NoError
    /\ Stores # {}
    /\ future = NoFuture
    /\ bootstrap = "True"

\* C35: at the end of every Close that had a scale set published and
\* patched the pool, Status.Ready is true only if the persisted provisioning
\* state is Succeeded and the persisted Status.Replicas equals the desired
\* replicas; when the scale set is Succeeded but the counts differ, the
\* persisted state is Updating, Ready is false and the desired-replicas
\* condition is false with reason scale-up (desired greater) or scale-down
\* (desired smaller).
C35_ReadyMeansReplicasMet ==
    (Synced /\ closed.patched) =>
        /\ status.Ready =>
               /\ status.ProvisioningState = "Succeeded"
               /\ status.Replicas = closed.desired
        /\ (closed.state.State = "Succeeded" /\ status.Replicas # closed.desired) =>
               /\ status.ProvisioningState = "Updating"
               /\ ~status.Ready
               /\ <<"ScaleSetDesiredReplicas",
                    IF closed.desired > status.Replicas THEN "ScaleUp" ELSE "ScaleDown">>
                      \in closed.conditions

\* the provider ids deleted by the calls before call i
DeletedBefore(i) ==
    { closed.calls[j].key : j \in { k \in StoreCalls("Delete") :
                                      k < i /\ closed.calls[k].res = "OK" } }

\* C36: the machines created by a Close are not candidates of the selection
\* of that Close: the selector is handed the machines listed at the start of
\* the pass less the ones deleted as gone, so no machine is created and
\* deleted in one pass.
C36_CreatedNeverSelected ==
    Synced =>
        /\ \A i \in Selections :
               /\ closed.calls[i].from = RecordedIDs \ DeletedBefore(i)
               /\ closed.calls[i].from \cap CreateAttempts = {}
               /\ closed.calls[i].toDelete \cap CreateAttempts = {}
        /\ CreateAttempts \cap DeleteAttempts = {}

\* a pass creates a machine and deletes another one the selector picked
C36_Witness ==
    /\ Synced
    /\ CreatedIDs # {}
    /\ \E i \in Selections : /\ closed.calls[i].toDelete # {}
                             /\ closed.calls[i].toDelete = DeletedIDs

\* what createMachine answers for an instance it does not send to the store
CreateRefusals ==
    {"machine.InstanceID must not be empty", "machine.Name must not be empty"}

\* the creates of the pass c the store refused
FailedCreates(c) ==
    { i \in 1..Len(c.calls) : c.calls[i].api = "Create" /\ c.calls[i].res # "OK" }

\* in the pass c a machine could not be created
CreateFailedIn(c) ==
    /\ c.state # Nil
    /\ (FailedCreates(c) # {} \/ c.ret \in CreateRefusals)

\* C37: when a machine cannot be created in a Close, an instance without
\* instance id or without name included, the Close returns that error, no
\* machine is deleted and none selected in it, and provisioning state,
\* replica count and provider id list stay as they were.
C37_CreateFailureEndsThePass ==
    [][Close /\ CreateFailedIn(closed') =>
         /\ closed'.ret # "nil"
         /\ \/ closed'.ret \in CreateRefusals /\ FailedCreates(closed') = {}
            \/ \E i \in FailedCreates(closed') :
                  /\ closed'.ret = closed'.calls[i].res
                  /\ i = Len(closed'.calls)
         /\ \A i \in 1..Len(closed'.calls) :
                closed'.calls[i].api \in {"List", "Create"}
         /\ machines \subseteq machines'
         /\ ~closed'.patched
         /\ status'.ProvisioningState = status.ProvisioningState
         /\ status'.Replicas = status.Replicas
         /\ status'.ProviderIDList = status.ProviderIDList]_vars

\* a Close in which a machine could not be created while a machine of an
\* instance that is gone was there to delete
C37_Witness ==
    /\ CreateFailedIn(closed)
    /\ GoneIDs # {}
    /\ closed.ret # "nil"

\* the same for an instance that has an instance id and no name
NamelessCreateRefused ==
    /\ closed.ret = "machine.Name must not be empty"
    /\ GoneIDs # {}

EmptyFleetDeletedAll ==
    /\ Synced
    /\ closed.state.Instances = {}
    /\ Cardinality(DeletedIDs) >= 2
    /\ machines = {}

\* C39: a future stored through the scope of a managed machine pool in one
\* pass is what GetLongRunningOperationState returns for its name and service
\* in the scope of the next pass, once the scope was closed and its patch
\* went through.
C39_CheckpointSurvivesClose ==
    [][(/\ NewManagedMachinePoolScope
        /\ managed.last.kind = "close"
        /\ managed.last.ret.err = NilError)
       => \A f \in managed.last.stored :
            ManagedGetLongRunningOperationState(managed'.scope, f.Name, f.ServiceName)
                = f]_vars

\* a step of ManagedReconcile, the one action that leaves a pass of kind
\* "reconcile" behind a new scope
ManagedReconcileStep ==
    /\ managed.scope.open
    /\ managed.last.kind = "new"
    /\ managed'.last.kind = "reconcile"

\* the tags of a scale set name the agent pool
TaggedFor(ss, agentPoolName) ==
    ss.poolName = agentPoolName \/ ss.aksManagedPoolName = agentPoolName

\* C40: a Reconcile of a managed machine pool returns nil only when the
\* agent pool was reconciled, the listing held a scale set tagged with the
\* name of the pool (poolName or aks-managed-poolName), the instances of the
\* first such scale set were listed and every id converted; it then holds the
\* converted ids in their order, their number as replicas and ready true.
\* When it returns an error the three fields are as before, and a listing
\* without such a scale set is a transient error to be retried after 20
\* seconds.
C40_FieldsSetOnSuccessOnly ==
    [][ManagedReconcileStep =>
         LET before == managed.scope.InfraMachinePool
             after == managed'.scope.InfraMachinePool
             l == managed'.last
             tagged == { i \in 1..Len(l.vmss) : TaggedFor(l.vmss[i], AgentPoolName) }
         IN /\ l.ret.err = NilError =>
                 /\ l.at = "done"
                 /\ l.stored = {}
                 /\ tagged # {}
                 /\ \E i \in tagged : /\ l.listed = l.vmss[i].Name
                                      /\ \A j \in tagged : i <= j
                 /\ Len(after.ProviderIDList) = Len(l.instances)
                 /\ \A i \in 1..Len(l.instances) :
                        /\ l.instances[i].wellFormed
                        /\ after.ProviderIDList[i] =
                             <<"azure://", ToLower(l.instances[i].resourceGroup),
                               l.instances[i].vm>>
                 /\ after.Replicas = Len(after.ProviderIDList)
                 /\ after.Ready
            /\ l.ret.err # NilError => after = before
            /\ l.at \in {"match", "ListInstances", "convert", "done"} =>
                 (l.at = "match" <=> tagged = {})
            /\ l.at = "match" =>
                 /\ l.ret.RequeueAfter = AgentPoolVMSSNotFoundDelay
                 /\ l.ret.err = <<"transient", "failed to find vm scale set">>
            /\ l.at \in {"List", "ListInstances", "convert"} => l.ret.RequeueAfter = 0]_vars

\* a Reconcile has set two provider ids, one of them with its resource
\* group lowered, from the second scale set of the listing, tagged
\* aks-managed-poolName, on a pool that held other values
C40_Witness ==
    /\ managed.last.kind = "reconcile"
    /\ managed.last.ret.err = NilError
    /\ managed.scope.open
    /\ Len(managed.scope.InfraMachinePool.ProviderIDList) = 2
    /\ managed.scope.InfraMachinePool.ProviderIDList[1] = <<"azure://", "mc_rg", "0">>
    /\ managed.last.listed = "ss2"
    /\ Len(managed.last.vmss) = 2
    /\ managed.last.vmss[2].poolName = "nil"
    /\ managed.pool.Ready
    /\ managed.pool.Replicas = 1

\* a Reconcile that found no scale set of the pool has left a pool that
\* was ready with its provider ids
ManagedNotFoundLeavesFields ==
    /\ managed.last.kind = "reconcile"
    /\ managed.last.at = "match"
    /\ managed.scope.open
    /\ managed.scope.InfraMachinePool.Ready
    /\ managed.scope.InfraMachinePool.Replicas = 2

====
